---- MODULE Spec2Model ----
(***************************************************************************)
(* Model of the arkai pipeline orchestrator (src/core/orchestrator.rs),   *)
(* its append-only event store (src/core/event_store.rs), the run state   *)
(* rebuilt from events (src/domain/run.rs), the safety policy             *)
(* (src/core/safety.rs) and the retry policy (src/core/pipeline.rs).      *)
(*                                                                         *)
(* One run (one run_id, one events.jsonl) is modelled: run_pipeline       *)
(* creates it, resume_run continues it.  The executor (the Fabric         *)
(* adapter) is the environment: every call returns Ok(output) or Err.     *)
(* The process may be killed at any suspension point, and a log append    *)
(* may fail with an I/O error.                                            *)
(***************************************************************************)
EXTENDS Integers, Sequences, FiniteSets, TLC

\* ------------------------------------------------------------------ bounds
\* Longest pipeline drawn in Init.
MaxPipelineLen == 2
\* Number of resume_run invocations explored after run_pipeline.
MaxResumes == 1
\* Largest reading of the tracker's clock (seconds since SafetyTracker::new).
MaxElapsed == 1

\* ------------------------------------------------------- program constants
\* default_max_attempts()
DefaultMaxAttempts == 3

\* -------------------------------------------------------------- input sets
RunId == "r1"
StepNames == {"A", "B"}
\* Byte strings used as pipeline input and as executor output.
Contents == {"x", "zzzz"}
\* The literal of a `static` input source (a JSON string value).
StaticValue == "s"

PipelineInput == [kind |-> "pipeline_input", ref |-> ""]
PreviousStep(n) == [kind |-> "previous_step", ref |-> n]
ArtifactRef(n) == [kind |-> "artifact", ref |-> n]
Static(v) == [kind |-> "static", ref |-> v]

\* The sources drawn for the steps of a run: a reference to step A as a
\* previous step, a reference to step B as a named artifact.
InputSources == {PipelineInput, PreviousStep("A"), ArtifactRef("B")}

\* RetryPolicy: max_attempts is drawn, the delays are those of the retry test
\* (initial 1 ms, multiplier 2, cap 10 ms).
RetryPolicies ==
    {[max_attempts |-> m, initial_delay_ms |-> 1, max_delay_ms |-> 10,
      backoff_multiplier |-> 2] : m \in {0, 1, DefaultMaxAttempts}}

Steps == [name : StepNames, input_from : InputSources, retry_policy : RetryPolicies]

Pipelines == UNION {[1..n -> Steps] : n \in 1..MaxPipelineLen}

\* A validation that lets a step refer to itself.
validate_allowing_self(ss) ==
    /\ ss # <<>>
    /\ \A i \in 1..Len(ss) :
          ss[i].input_from.kind = "previous_step" =>
             \E j \in 1..Len(ss) :
                /\ ss[j].name = ss[i].input_from.ref
                /\ \A h \in 1..(j - 1) : ss[h].name # ss[i].input_from.ref
                /\ j <= i

\* Pipeline::validate, on the step list: steps non-empty, and a previous_step
\* reference names a step whose first position is below the referring step.
\* (Names are non-empty here; nothing else is tested.)
validate(ss) ==
    /\ ss # <<>>
    /\ \A i \in 1..Len(ss) :
          ss[i].input_from.kind = "previous_step" =>
             \E j \in 1..Len(ss) :
                /\ ss[j].name = ss[i].input_from.ref
                /\ \A h \in 1..(j - 1) : ss[h].name # ss[i].input_from.ref
                /\ j < i

\* SafetyLimits: sizes are fixed so that "x" and the static literal fit and
\* "zzzz" does not; max_steps is drawn, the run timeout is one second.
SafetyLimitsSet ==
    [max_steps : 0..MaxPipelineLen, max_input_bytes : {3}, max_output_bytes : {3},
     run_timeout_seconds : {1}]

\* ------------------------------------------------------------------ helpers
EmptyMap == [x \in {} |-> ""]
Put(m, k, v) == [x \in (DOMAIN m) \cup {k} |-> IF x = k THEN v ELSE m[x]]
Min(a, b) == IF a <= b THEN a ELSE b

RECURSIVE Pow(_, _)
Pow(b, e) == IF e = 0 THEN 1 ELSE b * Pow(b, e - 1)

IsPrefix(s, t) == Len(s) <= Len(t) /\ SubSeq(t, 1, Len(s)) = s

\* ------------------------------------------------------------ event records
\* Event::new plus with_error: the fields the orchestrator and replay read.
Event(type, step, key, err) ==
    [event_type |-> type, step_id |-> step, idempotency_key |-> key, error |-> err]

NoStep == ""
NoError == ""

StepEventTypes == {"StepStarted", "StepCompleted", "StepFailed", "StepRetrying"}
TerminalEventTypes == {"RunCompleted", "RunFailed", "SafetyLimitReached"}

\* --------------------------------------------------------------- event store
\* hash_input: the first 16 hex chars of SHA-256, taken as collision free.
hash_input(input) == "h(" \o input \o ")"

\* generate_idempotency_key: "{run_id}:{step_name}:{input_hash}"
generate_idempotency_key(run_id, step_name, input) ==
    run_id \o ":" \o step_name \o ":" \o hash_input(input)

\* The key of a StepRetrying event: "{idem_key}:retry:{attempt}"
retry_key(idem_key, attempt) == idem_key \o ":retry:" \o ToString(attempt)

\* A line of events.jsonl: a serialized event, or a blank line.
JsonLine(e) == [blank |-> FALSE, json |-> e]
BlankLine == [blank |-> TRUE, json |-> Event("", NoStep, "", NoError)]

\* The file on disk: whether it exists, and its lines.
MissingFile == [exists |-> FALSE, lines |-> <<>>]

\* A write that truncates the file instead of appending to it.
append_truncating(f, e) == [exists |-> TRUE, lines |-> <<JsonLine(e)>>]

\* EventStore::append: open with create+append, write one line, flush.
append(f, e) == [exists |-> TRUE, lines |-> Append(f.lines, JsonLine(e))]

RECURSIVE ParseLines(_)
ParseLines(ls) ==
    IF ls = <<>> THEN <<>>
    ELSE IF Head(ls).blank THEN ParseLines(Tail(ls))
         ELSE <<Head(ls).json>> \o ParseLines(Tail(ls))

\* A reader that stops at the first blank line.
RECURSIVE ParseUntilBlank(_)
ParseUntilBlank(ls) ==
    IF ls = <<>> \/ Head(ls).blank THEN <<>>
    ELSE <<Head(ls).json>> \o ParseUntilBlank(Tail(ls))

replay_until_blank(f) == IF ~f.exists THEN <<>> ELSE ParseUntilBlank(f.lines)

\* EventStore::replay: no file -> empty; else every non-blank line, in order.
replay(f) == IF ~f.exists THEN <<>> ELSE ParseLines(f.lines)

\* A lookup that tests for the wrong event type and so never finds a step.
is_step_completed_wrong_type(f, key) ==
    \E i \in 1..Len(replay(f)) :
        /\ replay(f)[i].idempotency_key = key
        /\ replay(f)[i].event_type = "RunCompleted"

\* A lookup that matches the key whatever the kind of the event.
is_step_completed_any_type(f, key) ==
    \E i \in 1..Len(replay(f)) : replay(f)[i].idempotency_key = key

\* A lookup that finds no step completed.
is_step_completed_never(f, key) == FALSE

\* EventStore::is_step_completed
is_step_completed(f, key) ==
    \E i \in 1..Len(replay(f)) :
        /\ replay(f)[i].idempotency_key = key
        /\ replay(f)[i].event_type = "StepCompleted"

\* ------------------------------------------------------------- safety policy
\* SafetyTracker::new
NewTracker == [steps_executed |-> 0, input_bytes |-> 0, output_bytes |-> 0]

\* SafetyTracker::record_step
record_step(t, input_bytes, output_bytes) ==
    [steps_executed |-> t.steps_executed + 1,
     input_bytes |-> t.input_bytes + input_bytes,
     output_bytes |-> t.output_bytes + output_bytes]

NoViolation == "none"

\* A step-count gate that lets one step too many through.
check_strict(lim, t, secs) ==
    IF t.steps_executed > lim.max_steps THEN "MaxSteps"
    ELSE IF secs >= lim.run_timeout_seconds THEN "RunTimeout"
    ELSE NoViolation

\* A check that never looks at the clock.
check_without_timeout(lim, t, secs) ==
    IF t.steps_executed >= lim.max_steps THEN "MaxSteps" ELSE NoViolation

\* SafetyLimits::check: the step count first, then the run timeout.
check(lim, t, secs) ==
    IF t.steps_executed >= lim.max_steps THEN "MaxSteps"
    ELSE IF secs >= lim.run_timeout_seconds THEN "RunTimeout"
    ELSE NoViolation

\* SafetyLimits::validate_input with source_path = None: the size gate only.
validate_input(lim, input) ==
    IF Len(input) > lim.max_input_bytes THEN "MaxInputBytes" ELSE NoViolation

\* SafetyLimits::validate_output
validate_output(lim, output) ==
    IF Len(output) > lim.max_output_bytes THEN "MaxOutputBytes" ELSE NoViolation

\* -------------------------------------------------------------- retry policy
\* A retry test that never gives up.
should_retry_always(policy, n) == TRUE

\* A retry test that allows one attempt too many.
should_retry_inclusive(policy, n) == n <= policy.max_attempts

\* RetryPolicy::should_retry
should_retry(policy, n) == n < policy.max_attempts

\* A delay without backoff.
delay_for_attempt_constant(policy, n) == policy.initial_delay_ms

\* RetryPolicy::delay_for_attempt (integer multiplier; `as u64` truncation is
\* then the identity)
delay_for_attempt(policy, n) ==
    IF n <= 1 THEN policy.initial_delay_ms
    ELSE Min(policy.initial_delay_ms * Pow(policy.backoff_multiplier, n - 1),
             policy.max_delay_ms)

\* ------------------------------------------------------------------ run state
RunState(status, detail) == [status |-> status, detail |-> detail]

\* Run::new
NewRun ==
    [state |-> RunState("Running", ""), current_step |-> 0,
     artifacts |-> EmptyMap, step_statuses |-> EmptyMap]

\* Run::apply_event
apply_event(r, e) ==
    CASE e.event_type = "RunStarted" -> [r EXCEPT !.state = RunState("Running", "")]
      [] e.event_type = "RunCompleted" -> [r EXCEPT !.state = RunState("Completed", "")]
      [] e.event_type = "RunFailed" -> [r EXCEPT !.state = RunState("Failed", e.error)]
      [] e.event_type = "SafetyLimitReached" ->
            [r EXCEPT !.state = RunState("SafetyLimitReached", e.error)]
      [] e.event_type = "StepStarted" /\ e.step_id # NoStep ->
            [r EXCEPT !.step_statuses = Put(@, e.step_id, "Running")]
      [] e.event_type = "StepRetrying" /\ e.step_id # NoStep ->
            [r EXCEPT !.step_statuses = Put(@, e.step_id, "Running")]
      [] e.event_type = "StepFailed" /\ e.step_id # NoStep ->
            [r EXCEPT !.step_statuses = Put(@, e.step_id, "Failed")]
      [] e.event_type = "StepCompleted" /\ e.step_id # NoStep ->
            [r EXCEPT !.step_statuses = Put(@, e.step_id, "Completed"),
                      !.current_step = @ + 1]
      [] OTHER -> r

RECURSIVE ApplyAll(_, _)
ApplyAll(r, evs) ==
    IF evs = <<>> THEN r ELSE ApplyAll(apply_event(r, Head(evs)), Tail(evs))

\* Run::from_events for a non-empty sequence (None for the empty one is the
\* caller's events.is_empty() branch).  The artifact map is never filled.
from_events(evs) == ApplyAll(NewRun, evs)

\* ----------------------------------------------------------- input resolution
\* serde_json::to_string of a JSON string value
to_json_string(v) == "\"" \o v \o "\""

ResolveError == [ok |-> FALSE, value |-> ""]
Resolved(v) == [ok |-> TRUE, value |-> v]

\* Orchestrator::resolve_input
resolve_input(pipeline_input, arts, step) ==
    CASE step.input_from.kind = "pipeline_input" -> Resolved(pipeline_input)
      [] step.input_from.kind \in {"previous_step", "artifact"} ->
            IF step.input_from.ref \in DOMAIN arts
            THEN Resolved(arts[step.input_from.ref])
            ELSE ResolveError
      [] OTHER -> Resolved(to_json_string(step.input_from.ref))

\* ---------------------------------------------------------------------- state
VARIABLES
    pipeline,       \* the Pipeline given to run_pipeline and resume_run
    orig_input,     \* the input given to run_pipeline
    file,           \* runs/{run_id}/events.jsonl
    artifacts_dir,  \* runs/{run_id}/artifacts: step name -> bytes
    pc,             \* position of the invocation in progress
    op,             \* "run_pipeline" | "resume_run" | "none"
    input,          \* the input argument of the invocation in progress
    run,            \* the in-memory Run
    tracker,        \* the SafetyTracker
    elapsed,        \* tracker.started_at.elapsed(): as last read by check, or later
    artifacts,      \* the local artifacts map
    step_idx,       \* loop index in pipeline.steps (0-based)
    step_input,     \* the resolved input of the step being executed
    attempt,        \* attempt counter of execute_step_with_retry
    result,         \* what the invocation returned: "none" | "Ok" | "Err"
    error,          \* the error carried by a failing step or an Err return
    started,        \* run_pipeline has been called
    resumes,        \* resume_run invocations so far
    base,           \* number of events in the log when the invocation began
    exec_calls,     \* history: every executor invocation
    sleeps,         \* history: every backoff sleep
    io_failed,      \* a log append of this invocation failed with an I/O error
    appended,       \* event-store harness: the events given to append so far
    replayed        \* event-store harness: what the last replay returned

\* The voice queue (src/ingest/queue.rs).
VARIABLES
    queue_log,      \* voice_queue.jsonl: the QueueEvents appended, in file order
    queue_ret       \* the last queue call: its arguments and what it returned

\* The voice memo watcher (src/ingest/watcher.rs).
VARIABLES
    now,            \* the clock (Instant::now, Utc::now), in seconds
    fs,             \* the watched audio file on disk: its size, mtime and bytes
    notified,       \* a debounced file event for the watched path waits in rx
    pending,        \* run_watcher's pending map: path -> FileStabilityState
    observed,       \* the metadata the loop has read for the pending path, in order
    loops,          \* the passes of the watch loop made
    watch_ret,      \* what the last pass did with the file
    event_tx        \* the AudioFileEvents sent on the output channel

\* The span resolver (src/evidence/spans.rs).
VARIABLES
    text,           \* the artifact text, a sequence of bytes
    quote,          \* the quote to find, a sequence of bytes
    span_ret        \* what find_quote(text, quote) returned

\* Evidence validation (src/cli/evidence.rs).
VARIABLES
    evidence_list,   \* evidence.jsonl as load_all_evidence reads it
    content_dir,     \* the artifact files of the content directory: name -> bytes
    metadata,        \* metadata.json: artifact_digests, name -> digest
    evidence_events, \* the events execute_validate appended to events.jsonl
    validate_ret     \* how execute_validate ended

\* A call of a function that keeps no state.
VARIABLES
    call             \* the function called, its arguments and what it returned

\* scan_once (src/ingest/watcher.rs) on a directory of its own.
VARIABLES
    scan_dir,          \* the watched directory: path -> entry
    scan_rets          \* history: what each scan_once call read and returned

\* Tasks of one process appending to one event log.
VARIABLES
    writers            \* per task: position in append, offset of its handle at open, appends done

\* Workers calling mark_processing on one queue file at the same time.
VARIABLES
    workers            \* per worker: position in mark_processing, the id given, what it returned

vars ==
    <<pipeline, orig_input, file, artifacts_dir, pc, op, input, run, tracker,
      elapsed, artifacts, step_idx, step_input, attempt, result, error, started,
      resumes, base, exec_calls, sleeps, io_failed, appended, replayed,
      queue_log, queue_ret,
      now, fs, notified, pending, observed, loops, watch_ret, event_tx,
      text, quote, span_ret,
      evidence_list, content_dir, metadata, evidence_events, validate_ret,
      call,
      scan_dir, scan_rets,
      writers,
      workers>>

\* QueueEvent::data = None
NoData == [file_path |-> "", file_size |-> 0, detected_at |-> 0]
\* No queue call has been made.
NoQueueCall == [op |-> "none", id |-> "", data |-> NoData, result |-> "", items |-> <<>>]
ingest == <<queue_log, queue_ret>>
\* The queue file does not exist and no queue call has been made.
QueueIdle ==
    /\ queue_log = <<>>
    /\ queue_ret = NoQueueCall

watch == <<now, fs, notified, pending, observed, loops, watch_ret, event_tx>>
\* The watched path holds no file.
NoFile == [path |-> "", exists |-> FALSE, size |-> 0, mtime |-> 0, content |-> ""]
\* The watch loop has made no pass.
NoPass == [outcome |-> "none", path |-> "", result |-> ""]
\* The watcher has not been started and the watched directory is empty.
WatcherIdle ==
    /\ now = 0
    /\ fs = NoFile
    /\ notified = FALSE
    /\ pending = EmptyMap
    /\ observed = <<>>
    /\ loops = 0
    /\ watch_ret = NoPass
    /\ event_tx = <<>>

evidence == <<text, quote, span_ret>>
\* find_quote has not been called.
NoSpanCall == [called |-> FALSE, matches |-> <<>>, normalized_hint |-> FALSE]
ResolverIdle ==
    /\ text = <<>>
    /\ quote = <<>>
    /\ span_ret = NoSpanCall

validation == <<evidence_list, content_dir, metadata, evidence_events, validate_ret>>
\* execute_validate has not been called; the content directory is empty.
ValidationIdle ==
    /\ evidence_list = <<>>
    /\ content_dir = EmptyMap
    /\ metadata = EmptyMap
    /\ evidence_events = <<>>
    /\ validate_ret = "none"

\* The tasks that append to the log at the same time.
Tasks == {1, 2}
append_tasks == <<writers>>
\* No task has begun an append.
WritersIdle == writers = [t \in Tasks |-> [pc |-> "idle", offset |-> 0, n |-> 0]]

\* The workers that take items from the queue at the same time.
Workers == {1, 2}
queue_workers == <<workers>>
NoWorkerCall == [pc |-> "idle", id |-> "", result |-> ""]
\* No worker has called mark_processing.
WorkersIdle == workers = [w \in Workers |-> NoWorkerCall]

scan == <<scan_dir, scan_rets>>
\* The directory is empty and scan_once has not been called.
ScanIdle ==
    /\ scan_dir = [p \in {} |-> 0]
    /\ scan_rets = <<>>

NoCall == [fn |-> "none", args |-> <<>>, ret |-> <<>>]
\* No such function has been called.
NoPureCall == call = NoCall

\* The pipeline's safety_limits.
limits == pipeline.safety_limits
steps == pipeline.steps
\* pipeline.steps[step_idx] (Rust indexes from 0)
step == steps[step_idx + 1]
idem_key == generate_idempotency_key(RunId, step.name, step_input)

params == <<pipeline, orig_input>>
store_harness == <<appended, replayed>>
\* What no orchestrator action changes.
fixed == <<params, store_harness, ingest, watch, evidence, validation, call, scan, append_tasks, queue_workers>>
disk == <<file, artifacts_dir>>
memory == <<run, tracker, elapsed, artifacts, step_idx, step_input, attempt>>
history == <<exec_calls, sleeps>>

Running == {"loop", "exec", "sleep", "failing"}

\* No invocation is in progress and none has been made.
NoInvocation ==
    /\ artifacts_dir = EmptyMap
    /\ pc = "idle"
    /\ op = "none"
    /\ input = ""
    /\ run = NewRun
    /\ tracker = NewTracker
    /\ elapsed = 0
    /\ artifacts = EmptyMap
    /\ step_idx = 0
    /\ step_input = ""
    /\ attempt = 0
    /\ result = "none"
    /\ error = NoError
    /\ started = FALSE
    /\ resumes = 0
    /\ base = 0
    /\ exec_calls = <<>>
    /\ sleeps = <<>>
    /\ io_failed = FALSE

Init ==
    /\ pipeline \in [safety_limits : SafetyLimitsSet, steps : Pipelines]
    /\ orig_input \in Contents
    /\ file = MissingFile
    /\ NoInvocation
    /\ appended = <<>>
    /\ replayed = <<>>
    /\ QueueIdle
    /\ WatcherIdle
    /\ ValidationIdle
    /\ NoPureCall
    /\ WorkersIdle
    /\ WritersIdle
    /\ ScanIdle
    /\ ResolverIdle

\* The invocation returns: res is "Ok" or "Err".
Return(res, err) ==
    /\ pc' = "returned"
    /\ result' = res
    /\ error' = err

\* -------------------------------------------------------------- run_pipeline
\* run_pipeline up to the loop: open the store, Run::new, SafetyTracker::new,
\* append RunStarted.
RunPipeline ==
    /\ pc = "idle" /\ ~started
    /\ started' = TRUE
    /\ op' = "run_pipeline"
    /\ input' = orig_input
    /\ base' = Len(replay(file))
    /\ file' = append(file, Event("RunStarted", NoStep, RunId \o ":start", NoError))
    /\ run' = NewRun
    /\ tracker' = NewTracker
    /\ elapsed' = 0
    /\ artifacts' = EmptyMap
    /\ step_idx' = 0
    /\ step_input' = ""
    /\ attempt' = 0
    /\ pc' = "loop"
    /\ result' = "none"
    /\ error' = NoError
    /\ io_failed' = FALSE
    /\ UNCHANGED <<fixed, artifacts_dir, resumes, history>>

\* ---------------------------------------------------------------- resume_run
\* resume_run on a run without events: bail!("No events found").
ResumeNoEvents ==
    /\ pc = "idle" /\ resumes < MaxResumes
    /\ replay(file) = <<>>
    /\ \E i \in Contents : input' = i
    /\ resumes' = resumes + 1
    /\ op' = "resume_run"
    /\ base' = 0
    /\ io_failed' = FALSE
    /\ Return("Err", "NoEvents")
    /\ UNCHANGED <<fixed, disk, memory, started, history>>

\* resume_run up to the loop: replay, Run::from_events, SafetyTracker::new,
\* artifacts = run.artifacts.clone(), start at run.current_step.
ResumeRun ==
    /\ pc = "idle" /\ resumes < MaxResumes
    /\ replay(file) # <<>>
    /\ \E i \in Contents : input' = i
    /\ resumes' = resumes + 1
    /\ op' = "resume_run"
    /\ base' = Len(replay(file))
    /\ run' = from_events(replay(file))
    /\ tracker' = NewTracker
    /\ elapsed' = 0
    /\ artifacts' = from_events(replay(file)).artifacts
    /\ step_idx' = from_events(replay(file)).current_step
    /\ step_input' = ""
    /\ attempt' = 0
    /\ pc' = "loop"
    /\ result' = "none"
    /\ error' = NoError
    /\ io_failed' = FALSE
    /\ UNCHANGED <<fixed, disk, started, history>>

\* ------------------------------------------------------- the loop over steps
AtStep == pc = "loop" /\ step_idx < Len(steps)
\* The clock readings check can get: time does not run backwards.
Clock == elapsed..MaxElapsed
violation(secs) == check(limits, tracker, secs)
resolved == resolve_input(input, artifacts, step)
key_of(v) == generate_idempotency_key(RunId, step.name, v)

\* complete_run, after the last step.
CompleteRun ==
    /\ pc = "loop" /\ step_idx >= Len(steps)
    /\ run' = [run EXCEPT !.state = RunState("Completed", "")]
    /\ file' = append(file, Event("RunCompleted", NoStep, RunId \o ":complete", NoError))
    /\ Return("Ok", NoError)
    /\ UNCHANGED <<fixed, artifacts_dir, op, input, tracker, elapsed, artifacts,
                   step_idx, step_input, attempt, started, resumes, base, history,
                   io_failed>>

\* The safety check before a step trips: handle_safety_violation.
SafetyViolation ==
    /\ AtStep
    /\ \E secs \in Clock :
        /\ elapsed' = secs
        /\ violation(secs) # NoViolation
        /\ run' = [run EXCEPT !.current_step = step_idx,
                              !.state = RunState("SafetyLimitReached", violation(secs))]
        /\ file' = append(file, Event("SafetyLimitReached", NoStep, RunId \o ":safety",
                                      violation(secs)))
    /\ Return("Ok", NoError)
    /\ UNCHANGED <<fixed, artifacts_dir, op, input, tracker, artifacts,
                   step_idx, step_input, attempt, started, resumes, base, history,
                   io_failed>>

\* The safety check before a step passes, at some reading of the clock.
PassesCheck == \E secs \in Clock : elapsed' = secs /\ violation(secs) = NoViolation

\* resolve_input(..)? fails: the invocation returns Err, nothing is appended.
ResolveFails ==
    /\ AtStep
    /\ PassesCheck
    /\ ~resolved.ok
    /\ run' = [run EXCEPT !.current_step = step_idx]
    /\ Return("Err", "MissingArtifact")
    /\ UNCHANGED <<fixed, disk, op, input, tracker, artifacts, step_idx,
                   step_input, attempt, started, resumes, base, history, io_failed>>

\* run_pipeline only: validate_input(..)? fails: returns Err, nothing appended.
ValidateInputFails ==
    /\ AtStep
    /\ PassesCheck
    /\ resolved.ok
    /\ op = "run_pipeline"
    /\ validate_input(limits, resolved.value) # NoViolation
    /\ run' = [run EXCEPT !.current_step = step_idx]
    /\ Return("Err", validate_input(limits, resolved.value))
    /\ UNCHANGED <<fixed, disk, op, input, tracker, artifacts, step_idx,
                   step_input, attempt, started, resumes, base, history, io_failed>>

\* The step passes the gates of the loop body and reaches the call of
\* execute_step_with_retry (resume_run has no validate_input, but skips a
\* completed step first).
ReachesExecute ==
    /\ AtStep
    /\ PassesCheck
    /\ resolved.ok
    /\ op = "run_pipeline" => validate_input(limits, resolved.value) = NoViolation

\* resume_run only: the step's key is completed: `continue`.
ResumeSkip ==
    /\ ReachesExecute
    /\ op = "resume_run"
    /\ is_step_completed(file, key_of(resolved.value))
    /\ run' = [run EXCEPT !.current_step = step_idx]
    /\ step_idx' = step_idx + 1
    /\ UNCHANGED <<fixed, disk, pc, op, input, tracker, artifacts,
                   step_input, attempt, result, error, started, resumes, base,
                   history, io_failed>>

\* execute_step_with_retry returns early on a completed key, with the artifact
\* of run.artifacts or an empty placeholder; the caller records it as a step.
IdempotentSkip ==
    /\ ReachesExecute
    /\ op = "resume_run" => ~is_step_completed(file, key_of(resolved.value))
    /\ is_step_completed(file, key_of(resolved.value))
    /\ LET content == IF step.name \in DOMAIN run.artifacts
                      THEN run.artifacts[step.name] ELSE ""
       IN /\ artifacts' = Put(artifacts, step.name, content)
          /\ run' = [run EXCEPT !.current_step = step_idx,
                                !.artifacts = Put(@, step.name, content)]
    /\ tracker' = record_step(tracker, Len(resolved.value), 0)
    /\ step_idx' = step_idx + 1
    /\ UNCHANGED <<fixed, disk, pc, op, input, step_input, attempt,
                   result, error, started, resumes, base, history, io_failed>>

\* One attempt begins: append StepStarted and call the executor.
BeginAttempt(n, in) ==
    /\ attempt' = n
    /\ step_input' = in
    /\ file' = append(file, Event("StepStarted", step.name, key_of(in), NoError))
    /\ run' = [run EXCEPT !.current_step = step_idx,
                          !.step_statuses = Put(@, step.name, "Running")]
    /\ exec_calls' = Append(exec_calls, [step |-> step.name, key |-> key_of(in),
                                         input |-> in])
    /\ pc' = "exec"

\* execute_step_with_retry: the key is not completed, first attempt.
StartStep ==
    /\ ReachesExecute
    /\ ~is_step_completed(file, key_of(resolved.value))
    /\ BeginAttempt(1, resolved.value)
    /\ UNCHANGED <<fixed, artifacts_dir, op, input, tracker, artifacts,
                   step_idx, result, error, started, resumes, base, sleeps, io_failed>>

\* ------------------------------------------------------- the executor returns
\* Ok(output) within the output limit: store the artifact, append
\* StepCompleted, and back in the loop record the artifact and the step.
ExecutorOk ==
    /\ pc = "exec"
    /\ \E out \in Contents :
        /\ validate_output(limits, out) = NoViolation
        /\ artifacts_dir' = Put(artifacts_dir, step.name, out)
        /\ file' = append(file, Event("StepCompleted", step.name, idem_key, NoError))
        /\ run' = [run EXCEPT !.step_statuses = Put(@, step.name, "Completed"),
                              !.artifacts = Put(@, step.name, out)]
        /\ artifacts' = Put(artifacts, step.name, out)
        /\ tracker' = record_step([tracker EXCEPT !.output_bytes = @ + Len(out)],
                                  Len(step_input), 0)
    /\ step_idx' = step_idx + 1
    /\ pc' = "loop"
    /\ UNCHANGED <<fixed, op, input, elapsed, step_input, attempt, result, error,
                   started, resumes, base, history, io_failed>>

\* Ok(output) over the output limit: validate_output(..)? leaves
\* execute_step_with_retry with Err, which the loop gives to handle_run_failure.
OutputTooLarge ==
    /\ pc = "exec"
    /\ \E out \in Contents :
        /\ validate_output(limits, out) # NoViolation
        /\ run' = [run EXCEPT !.state = RunState("Failed", validate_output(limits, out))]
        /\ file' = append(file, Event("RunFailed", NoStep, RunId \o ":complete",
                                      validate_output(limits, out)))
    /\ Return("Ok", NoError)
    /\ UNCHANGED <<fixed, artifacts_dir, op, input, tracker, elapsed, artifacts,
                   step_idx, step_input, attempt, started, resumes, base, history,
                   io_failed>>

\* Err(e) and the policy allows a retry: append StepRetrying, then sleep.
StepRetry ==
    /\ pc = "exec"
    /\ should_retry(step.retry_policy, attempt)
    /\ file' = append(file, Event("StepRetrying", step.name,
                                  retry_key(idem_key, attempt), "ExecutorError"))
    /\ sleeps' = Append(sleeps, [key |-> idem_key, attempt |-> attempt,
                                 delay |-> delay_for_attempt(step.retry_policy, attempt)])
    /\ pc' = "sleep"
    /\ UNCHANGED <<fixed, artifacts_dir, op, input, run, tracker, elapsed, artifacts,
                   step_idx, step_input, attempt, result, error, started, resumes,
                   base, exec_calls, io_failed>>

\* The sleep ends: `continue`, the next attempt begins.
BackoffDone ==
    /\ pc = "sleep"
    /\ BeginAttempt(attempt + 1, step_input)
    /\ UNCHANGED <<fixed, artifacts_dir, op, input, tracker, elapsed, artifacts,
                   step_idx, result, error, started, resumes, base, sleeps, io_failed>>

\* Err(e) and no retry is left: append StepFailed, return Err(e) to the loop.
StepFail ==
    /\ pc = "exec"
    /\ ~should_retry(step.retry_policy, attempt)
    /\ file' = append(file, Event("StepFailed", step.name, idem_key, "ExecutorError"))
    /\ run' = [run EXCEPT !.step_statuses = Put(@, step.name, "Failed")]
    /\ error' = "ExecutorError"
    /\ pc' = "failing"
    /\ UNCHANGED <<fixed, artifacts_dir, op, input, tracker, elapsed, artifacts,
                   step_idx, step_input, attempt, result, started, resumes, base,
                   history, io_failed>>

\* handle_run_failure after a failed step.
HandleRunFailure ==
    /\ pc = "failing"
    /\ run' = [run EXCEPT !.state = RunState("Failed", error)]
    /\ file' = append(file, Event("RunFailed", NoStep, RunId \o ":complete", error))
    /\ Return("Ok", NoError)
    /\ UNCHANGED <<fixed, artifacts_dir, op, input, tracker, elapsed, artifacts,
                   step_idx, step_input, attempt, started, resumes, base, history,
                   io_failed>>

\* ---------------------------------------------------------------- environment
\* A second passes while the executor runs or the backoff sleeps; nothing in
\* execute_step_with_retry reads the tracker's clock.
TimePasses ==
    /\ pc \in {"exec", "sleep"}
    /\ elapsed < MaxElapsed
    /\ elapsed' = elapsed + 1
    /\ UNCHANGED <<fixed, disk, pc, op, input, run, tracker, artifacts, step_idx,
                   step_input, attempt, result, error, started, resumes, base,
                   history, io_failed>>

ClearMemory ==
    /\ op' = "none"
    /\ input' = ""
    /\ run' = NewRun
    /\ tracker' = NewTracker
    /\ elapsed' = 0
    /\ artifacts' = EmptyMap
    /\ step_idx' = 0
    /\ step_input' = ""
    /\ attempt' = 0
    /\ result' = "none"
    /\ error' = NoError
    /\ io_failed' = FALSE

\* The next append of the invocation fails with an I/O error: `?` returns Err.
AppendFails ==
    /\ pc \in Running
    /\ io_failed' = TRUE
    /\ Return("Err", "Io")
    /\ UNCHANGED <<fixed, disk, op, input, memory, started, resumes, base, history>>

\* The process is killed; only the disk survives.
Kill ==
    /\ pc \in Running
    /\ pc' = "idle"
    /\ ClearMemory
    /\ UNCHANGED <<fixed, disk, started, resumes, base, history>>

\* The caller takes the result; the invocation is over.
Finish ==
    /\ pc = "returned"
    /\ pc' = "idle"
    /\ ClearMemory
    /\ UNCHANGED <<fixed, disk, started, resumes, base, history>>

Next ==
    \/ RunPipeline
    \/ ResumeNoEvents
    \/ ResumeRun
    \/ CompleteRun
    \/ SafetyViolation
    \/ ResolveFails
    \/ ValidateInputFails
    \/ ResumeSkip
    \/ IdempotentSkip
    \/ StartStep
    \/ ExecutorOk
    \/ OutputTooLarge
    \/ StepRetry
    \/ BackoffDone
    \/ StepFail
    \/ HandleRunFailure
    \/ TimePasses
    \/ AppendFails
    \/ Kill
    \/ Finish

Spec == Init /\ [][Next]_vars

\* ------------------------------------- invocations that are left to finish
\* A step of the invocation in progress: the code between two awaits, taken
\* once the await before it has returned.
InvocationStep ==
    \/ CompleteRun
    \/ SafetyViolation
    \/ ResolveFails
    \/ ValidateInputFails
    \/ ResumeSkip
    \/ IdempotentSkip
    \/ StartStep
    \/ ExecutorOk
    \/ OutputTooLarge
    \/ StepRetry
    \/ BackoffDone
    \/ StepFail
    \/ HandleRunFailure

\* No append fails and the process is not killed.
NextLive ==
    \/ RunPipeline
    \/ ResumeNoEvents
    \/ ResumeRun
    \/ InvocationStep
    \/ TimePasses
    \/ Finish

\* Every executor call, sleep and append returns, and the task is polled
\* again after it: an invocation step that stays possible is taken.
SpecLive == Init /\ [][NextLive]_vars /\ WF_vars(InvocationStep)

\* ------------------------------------------------- the event store on its own
\* EventStore::append and EventStore::replay driven directly, on a file that
\* other writers may have touched (created empty, blank lines added).
MaxFileLines == 3

StoreKey == generate_idempotency_key(RunId, "A", "x")
StoreKeyB == generate_idempotency_key(RunId, "B", "x")
StoreKeys == {StoreKey, StoreKeyB}
\* Events handed to append: those of step A under one key (as in
\* tests/idempotency.rs, where the retry event carries the step's key too) and a
\* completion of step B under another.
StoreEvents ==
    {Event("RunStarted", NoStep, RunId \o ":start", NoError),
     Event("StepStarted", "A", StoreKey, NoError),
     Event("StepRetrying", "A", StoreKey, "ExecutorError"),
     Event("StepCompleted", "A", StoreKey, NoError),
     Event("StepFailed", "A", StoreKey, "ExecutorError"),
     Event("StepCompleted", "B", StoreKeyB, NoError)}

StorePipeline ==
    [safety_limits |-> [max_steps |-> 1, max_input_bytes |-> 3, max_output_bytes |-> 3,
                        run_timeout_seconds |-> 1],
     steps |-> <<[name |-> "A", input_from |-> PipelineInput,
                  retry_policy |-> [max_attempts |-> 1, initial_delay_ms |-> 1,
                                    max_delay_ms |-> 10, backoff_multiplier |-> 2]]>>]

orchestrator ==
    <<params, artifacts_dir, pc, op, input, memory, result, error, started, resumes,
      base, history, io_failed, ingest, watch, evidence, validation, call, scan, append_tasks, queue_workers>>

InitStore ==
    /\ pipeline = StorePipeline
    /\ orig_input = "x"
    /\ file = MissingFile
    /\ NoInvocation
    /\ appended = <<>>
    /\ replayed = <<>>
    /\ QueueIdle
    /\ WatcherIdle
    /\ ValidationIdle
    /\ NoPureCall
    /\ WorkersIdle
    /\ WritersIdle
    /\ ScanIdle
    /\ ResolverIdle

\* EventStore::append(event)
StoreAppend ==
    /\ Len(file.lines) < MaxFileLines
    /\ \E e \in StoreEvents :
        /\ file' = append(file, e)
        /\ appended' = Append(appended, e)
    /\ UNCHANGED <<orchestrator, replayed>>

\* EventStore::replay()
StoreReplay ==
    /\ replayed' = replay(file)
    /\ UNCHANGED <<orchestrator, file, appended>>

\* Another writer creates the file empty.
StoreTouch ==
    /\ ~file.exists
    /\ file' = [file EXCEPT !.exists = TRUE]
    /\ UNCHANGED <<orchestrator, appended, replayed>>

\* Another writer leaves a blank line in the file.
StoreBlankLine ==
    /\ Len(file.lines) < MaxFileLines
    /\ file' = [exists |-> TRUE, lines |-> Append(file.lines, BlankLine)]
    /\ UNCHANGED <<orchestrator, appended, replayed>>

NextStore ==
    \/ StoreAppend
    \/ StoreReplay
    \/ StoreTouch
    \/ StoreBlankLine

SpecStore == InitStore /\ [][NextStore]_vars

\* ================================================================ voice queue
\* Longest queue log written.
MaxQueueLog == 4
\* Latest detection time given to enqueue.
MaxDetectedAt == 2

\* Bytes of the audio files.
FileContents == {"c1", "c2"}

\* compute_file_hash: a prefix of the SHA-256 of the file's bytes, taken as
\* collision-free on the contents drawn.
compute_file_hash(content) == "sha(" \o content \o ")"
QueueIds == {compute_file_hash(c) : c \in FileContents}

QueueItemData(path, size, at) ==
    [file_path |-> path, file_size |-> size, detected_at |-> at]
QueueEvent(id, type, data, err) ==
    [item_id |-> id, event_type |-> type, data |-> data, error |-> err]
\* The (file_path, file_size, detected_at) given to enqueue: two paths and
\* sizes detected at the same time, and each later detection time.
EnqueueArgs ==
    {QueueItemData("p1", 1, 1)}
    \cup {QueueItemData("p2", 2, at) : at \in 1..MaxDetectedAt}

QueueItem(id, data) ==
    [id |-> id, status |-> "Pending", data |-> data, retry_count |-> 0, error |-> ""]

\* Everything outside the queue.
pipeline_side ==
    <<pipeline, orig_input, file, artifacts_dir, pc, op, input, run, tracker,
      elapsed, artifacts, step_idx, step_input, attempt, result, error, started,
      resumes, base, exec_calls, sleeps, io_failed, appended, replayed,
      watch, evidence, validation, call, scan, append_tasks, queue_workers>>

\* A replay that forgets to count the retry.
queue_apply_event_no_count(items, e) ==
    CASE e.event_type = "Enqueued" /\ e.data # NoData ->
            Put(items, e.item_id, QueueItem(e.item_id, e.data))
      [] e.event_type = "ProcessingStarted" /\ e.item_id \in DOMAIN items ->
            [items EXCEPT ![e.item_id].status = "Processing"]
      [] e.event_type = "Completed" /\ e.item_id \in DOMAIN items ->
            [items EXCEPT ![e.item_id].status = "Done"]
      [] e.event_type = "Failed" /\ e.item_id \in DOMAIN items ->
            [items EXCEPT ![e.item_id].status = "Failed",
                          ![e.item_id].error = e.error]
      [] e.event_type = "ResetForRetry" /\ e.item_id \in DOMAIN items ->
            [items EXCEPT ![e.item_id].status = "Pending",
                          ![e.item_id].error = ""]
      [] OTHER -> items

\* VoiceQueue::apply_event
queue_apply_event(items, e) ==
    CASE e.event_type = "Enqueued" /\ e.data # NoData ->
            Put(items, e.item_id, QueueItem(e.item_id, e.data))
      [] e.event_type = "ProcessingStarted" /\ e.item_id \in DOMAIN items ->
            [items EXCEPT ![e.item_id].status = "Processing"]
      [] e.event_type = "Completed" /\ e.item_id \in DOMAIN items ->
            [items EXCEPT ![e.item_id].status = "Done"]
      [] e.event_type = "Failed" /\ e.item_id \in DOMAIN items ->
            [items EXCEPT ![e.item_id].status = "Failed",
                          ![e.item_id].error = e.error]
      [] e.event_type = "ResetForRetry" /\ e.item_id \in DOMAIN items ->
            [items EXCEPT ![e.item_id].status = "Pending",
                          ![e.item_id].retry_count = @ + 1,
                          ![e.item_id].error = ""]
      [] OTHER -> items

\* VoiceQueue::replay: fold apply_event over the file (no file: no items).
RECURSIVE queue_fold(_, _)
queue_fold(items, log) ==
    IF log = <<>> THEN items
    ELSE queue_fold(queue_apply_event(items, Head(log)), Tail(log))

queue_replay(log) == queue_fold(EmptyMap, log)

\* VoiceQueue::append_event
append_event(log, e) == Append(log, e)

\* An enqueue that queues a processed file again.
enqueue_result_requeue_done(items, hash) ==
    IF hash \in DOMAIN items /\ items[hash].status # "Done"
    THEN CASE items[hash].status = "Failed" -> "ResetForRetry"
           [] OTHER -> "AlreadyQueued"
    ELSE "Queued"

\* An enqueue that resets an item being processed.
enqueue_result_reset_processing(items, hash) ==
    IF hash \in DOMAIN items
    THEN CASE items[hash].status = "Done" -> "AlreadyProcessed"
           [] items[hash].status \in {"Failed", "Processing"} -> "ResetForRetry"
           [] OTHER -> "AlreadyQueued"
    ELSE "Queued"

\* VoiceQueue::enqueue, the decision taken on the replayed items.
enqueue_result(items, hash) ==
    IF hash \in DOMAIN items
    THEN CASE items[hash].status = "Done" -> "AlreadyProcessed"
           [] items[hash].status = "Failed" -> "ResetForRetry"
           [] OTHER -> "AlreadyQueued"
    ELSE "Queued"

\* A test that takes a reset for a new item.
is_new_or_reset(res) == res \in {"Queued", "ResetForRetry"}

\* EnqueueResult::is_new
is_new(res) == res = "Queued"

\* A mark_processing that also takes a failed item.
mark_processing_result_from_failed(items, id) ==
    IF id \notin DOMAIN items THEN "NotFound"
    ELSE IF items[id].status \notin {"Pending", "Failed"} THEN "InvalidTransition"
    ELSE "Ok"

\* VoiceQueue::mark_processing, the test made on the replayed items.
mark_processing_result(items, id) ==
    IF id \notin DOMAIN items THEN "NotFound"
    ELSE IF items[id].status # "Pending" THEN "InvalidTransition"
    ELSE "Ok"

\* Newest first.
pending_order_descending(a, b) == a.data.detected_at >= b.data.detected_at

\* The comparison get_pending sorts by.
pending_order(a, b) == a.data.detected_at <= b.data.detected_at

\* VoiceQueue::get_pending: the Pending items sorted by detected_at.  The items
\* come out of a HashMap, so items with equal detected_at may come in any order:
\* the set of vectors the call may return.
get_pending(items) ==
    LET ids == {id \in DOMAIN items : items[id].status = "Pending"}
        n == Cardinality(ids)
    IN {[i \in 1..n |-> items[s[i]]] :
           s \in {t \in [1..n -> ids] :
                    /\ \A i, j \in 1..n : i # j => t[i] # t[j]
                    /\ \A i, j \in 1..n :
                          i < j => pending_order(items[t[i]], items[t[j]])}}

QueueCall(o, id, data, res, its) ==
    [op |-> o, id |-> id, data |-> data, result |-> res, items |-> its]

InitQueue ==
    /\ pipeline = StorePipeline
    /\ orig_input = "x"
    /\ file = MissingFile
    /\ NoInvocation
    /\ appended = <<>>
    /\ replayed = <<>>
    /\ QueueIdle
    /\ WatcherIdle
    /\ ValidationIdle
    /\ NoPureCall
    /\ WorkersIdle
    /\ WritersIdle
    /\ ScanIdle
    /\ ResolverIdle

\* VoiceQueue::enqueue(file_path, file_size, detected_at); the file at
\* file_path holds `content`.
Enqueue ==
    \E content \in FileContents, data \in EnqueueArgs :
        LET hash == compute_file_hash(content)
            res == enqueue_result(queue_replay(queue_log), hash)
        IN /\ res \in {"Queued", "ResetForRetry"} => Len(queue_log) < MaxQueueLog
           /\ queue_log' =
                 CASE res = "Queued" ->
                         append_event(queue_log, QueueEvent(hash, "Enqueued", data, ""))
                   [] res = "ResetForRetry" ->
                         append_event(queue_log,
                                      QueueEvent(hash, "ResetForRetry", NoData, ""))
                   [] OTHER -> queue_log
           /\ queue_ret' = QueueCall("enqueue", hash, data, res, <<>>)
           /\ UNCHANGED pipeline_side

\* VoiceQueue::get_pending
GetPending ==
    /\ \E its \in get_pending(queue_replay(queue_log)) :
          queue_ret' = QueueCall("get_pending", "", NoData, "Ok", its)
    /\ UNCHANGED <<pipeline_side, queue_log>>

\* VoiceQueue::mark_processing(id)
MarkProcessing ==
    \E id \in QueueIds :
        LET res == mark_processing_result(queue_replay(queue_log), id)
        IN /\ res = "Ok" => Len(queue_log) < MaxQueueLog
           /\ queue_log' =
                 IF res = "Ok"
                 THEN append_event(queue_log,
                                   QueueEvent(id, "ProcessingStarted", NoData, ""))
                 ELSE queue_log
           /\ queue_ret' = QueueCall("mark_processing", id, NoData, res, <<>>)
           /\ UNCHANGED pipeline_side

\* VoiceQueue::mark_done(id): appends whatever the state of the item.
MarkDone ==
    /\ Len(queue_log) < MaxQueueLog
    /\ \E id \in QueueIds :
          /\ queue_log' = append_event(queue_log, QueueEvent(id, "Completed", NoData, ""))
          /\ queue_ret' = QueueCall("mark_done", id, NoData, "Ok", <<>>)
    /\ UNCHANGED pipeline_side

\* VoiceQueue::mark_failed(id, error): appends whatever the state of the item.
MarkFailed ==
    /\ Len(queue_log) < MaxQueueLog
    /\ \E id \in QueueIds :
          /\ queue_log' = append_event(queue_log, QueueEvent(id, "Failed", NoData, "e"))
          /\ queue_ret' = QueueCall("mark_failed", id, NoData, "Ok", <<>>)
    /\ UNCHANGED pipeline_side

\* A queue call fails reading the audio file or the queue file, or writing the
\* queue file: Err(Io), nothing appended.
QueueIoError ==
    /\ \E o \in {"enqueue", "get_pending", "mark_processing", "mark_done", "mark_failed"} :
          queue_ret' = QueueCall(o, "", NoData, "Io", <<>>)
    /\ UNCHANGED <<pipeline_side, queue_log>>

NextQueue ==
    \/ Enqueue
    \/ GetPending
    \/ MarkProcessing
    \/ MarkDone
    \/ MarkFailed
    \/ QueueIoError

SpecQueue == InitQueue /\ [][NextQueue]_vars

\* ============================================================== the watcher
\* The clock advances in steps of TickSecs seconds up to MaxNow; the watch loop
\* makes at most MaxLoops passes.
TickSecs == 10
MaxNow == 30
MaxLoops == 4

MIN_FILE_AGE_SECS == 30
\* WatcherConfig::default().stability_delay_secs
stability_delay_secs == 10
\* WatcherConfig::default().extensions
extensions == {"m4a", "qta"}

\* The files that can appear in the watched directory, with their extensions.
WatchedPaths == {"memo.qta", "memo.m4a"}
\* What the sync service writes to a watched file: nothing yet, or the recording.
WatchedContents == {"", "c1"}
extension(path) ==
    CASE path = "memo.qta" -> "qta"
      [] path = "memo.m4a" -> "m4a"
      [] OTHER -> "txt"
is_qta_file(path) == extension(path) = "qta"
\* metadata.len() of a file holding `content`
file_len(content) == IF content = "" THEN 0 ELSE 2

Without(m, k) == [x \in (DOMAIN m) \ {k} |-> m[x]]

\* FileStabilityState::new(size, mtime) at instant t
NewFileStabilityState(size, mtime, t) ==
    [size |-> size, mtime |-> mtime, first_seen |-> t, last_changed |-> t,
     stable_checks |-> 0]

\* What FileStabilityState::update returns: the metadata differs from the state's.
changed(state, new_size, new_mtime) ==
    new_size # state.size \/ new_mtime # state.mtime

\* The state FileStabilityState::update(new_size, new_mtime) leaves at instant t.
update(state, new_size, new_mtime, t) ==
    IF changed(state, new_size, new_mtime)
    THEN [state EXCEPT !.size = new_size, !.mtime = new_mtime,
                       !.last_changed = t, !.stable_checks = 0]
    ELSE state

\* A gate that does not count the stable checks.
is_stable_without_checks(state, stability_delay, min_age, t) ==
    /\ t - state.last_changed >= stability_delay
    /\ t - state.first_seen >= min_age

\* FileStabilityState::is_stable(stability_delay, min_age) at instant t
is_stable(state, stability_delay, min_age, t) ==
    /\ t - state.last_changed >= stability_delay
    /\ t - state.first_seen >= min_age
    /\ state.stable_checks >= 2

\* FileStabilityState::record_stable_check
record_stable_check(state) == [state EXCEPT !.stable_checks = @ + 1]

\* A retry reset that leaves the stable-check counter as it is.
reset_for_retry_keeping_checks(state, t) == [state EXCEPT !.last_changed = t]

\* FileStabilityState::reset_for_retry at instant t
reset_for_retry(state, t) == [state EXCEPT !.last_changed = t, !.stable_checks = 0]

\* One reading of the watched file's metadata by the loop.
Reading(kind) == [at |-> now, size |-> fs.size, mtime |-> fs.mtime, kind |-> kind]

\* normalize_audio(path): the path of the .m4a rendition.
normalized_path(path) == IF is_qta_file(path) THEN "memo.m4a" ELSE path
\* The bytes of the file normalize_audio(path) leaves at normalized_path(path).
normalized_content(path, content) ==
    IF is_qta_file(path) THEN "m4a(" \o content \o ")" ELSE content

AudioFileEvent(path, hash, size, at) ==
    [path |-> path, hash |-> hash, size |-> size, detected_at |-> at]

WatchResult(outcome, path, res) ==
    [outcome |-> outcome, path |-> path, result |-> res]

\* run_watcher's handling of the file events received: the pending map after it.
pending_after_events ==
    IF extension(fs.path) \in extensions /\ fs.exists
    THEN IF fs.path \in DOMAIN pending
         THEN [pending EXCEPT ![fs.path] = update(@, fs.size, fs.mtime, now)]
         ELSE Put(pending, fs.path, NewFileStabilityState(fs.size, fs.mtime, now))
    ELSE pending

\* The readings after the file events received were handled.
observed_after_events ==
    IF extension(fs.path) \in extensions /\ fs.exists
    THEN IF fs.path \in DOMAIN pending
         THEN Append(observed, Reading("event"))
         ELSE <<Reading("event")>>
    ELSE observed

\* The rest of one pass of run_watcher's loop, from the stability check on:
\* pend and obs are the pending map and the readings after the event wait.
StabilityPass(pend, obs) ==
    LET path == fs.path
        tracked == path \in DOMAIN pend /\ fs.exists
        state == IF changed(pend[path], fs.size, fs.mtime)
                 THEN update(pend[path], fs.size, fs.mtime, now)
                 ELSE record_stable_check(pend[path])
        sampled == IF tracked THEN [pend EXCEPT ![path] = state] ELSE pend
        readings == IF tracked THEN Append(obs, Reading("sample")) ELSE obs
        stable == /\ tracked
                  /\ fs.size > 0
                  /\ is_stable(state, stability_delay_secs, MIN_FILE_AGE_SECS, now)
        npath == normalized_path(path)
        hash == compute_file_hash(normalized_content(path, fs.content))
        data == QueueItemData(npath, fs.size, now)
        res == enqueue_result(queue_replay(queue_log), hash)
    IN  /\ loops < MaxLoops
        /\ loops' = loops + 1
        /\ notified' = FALSE
        /\ observed' = readings
        /\ UNCHANGED <<now, fs, pipeline, orig_input, file, artifacts_dir, pc, op,
                       input, run, tracker, elapsed, artifacts, step_idx, step_input,
                       attempt, result, error, started, resumes, base, exec_calls,
                       sleeps, io_failed, appended, replayed, evidence,
                       validation, call, scan, append_tasks, queue_workers>>
        /\ IF ~stable
           THEN /\ pending' = sampled
                /\ watch_ret' = WatchResult("waiting", "", "")
                /\ UNCHANGED <<ingest, event_tx>>
           ELSE \/ \* ffprobe cannot read the .qta file: deferred
                   /\ is_qta_file(path)
                   /\ pending' = [sampled EXCEPT ![path] = reset_for_retry(state, now)]
                   /\ watch_ret' = WatchResult("deferred", path, "ffprobe")
                   /\ UNCHANGED <<ingest, event_tx>>
                \/ \* normalize_audio fails: deferred
                   /\ pending' = [sampled EXCEPT ![path] = reset_for_retry(state, now)]
                   /\ watch_ret' = WatchResult("deferred", path, "normalize")
                   /\ UNCHANGED <<ingest, event_tx>>
                \/ \* compute_file_hash fails: a warning, the file is dropped
                   /\ pending' = Without(sampled, path)
                   /\ watch_ret' = WatchResult("hash_failed", path, "")
                   /\ UNCHANGED <<ingest, event_tx>>
                \/ \* queue.enqueue fails: a warning
                   /\ pending' = Without(sampled, path)
                   /\ watch_ret' = WatchResult("offered", path, "Io")
                   /\ queue_ret' = QueueCall("enqueue", "", NoData, "Io", <<>>)
                   /\ UNCHANGED <<queue_log, event_tx>>
                \/ \* queue.enqueue returns a result
                   /\ res \in {"Queued", "ResetForRetry"} => Len(queue_log) < MaxQueueLog
                   /\ pending' = Without(sampled, path)
                   /\ watch_ret' = WatchResult("offered", path, res)
                   /\ queue_log' =
                         CASE res = "Queued" ->
                                 append_event(queue_log, QueueEvent(hash, "Enqueued", data, ""))
                           [] res = "ResetForRetry" ->
                                 append_event(queue_log,
                                              QueueEvent(hash, "ResetForRetry", NoData, ""))
                           [] OTHER -> queue_log
                   /\ queue_ret' = QueueCall("enqueue", hash, data, res, <<>>)
                   /\ event_tx' =
                         IF is_new(res)
                         THEN Append(event_tx, AudioFileEvent(npath, hash, fs.size, now))
                         ELSE event_tx

\* One pass of the loop in which rx.recv_timeout returns the file events.
LoopOnEvents ==
    /\ notified
    /\ StabilityPass(pending_after_events, observed_after_events)

\* One pass of the loop in which rx.recv_timeout times out.
LoopOnTimeout ==
    /\ ~notified
    /\ StabilityPass(pending, observed)

not_watcher ==
    <<pipeline, orig_input, file, artifacts_dir, pc, op, input, run, tracker,
      elapsed, artifacts, step_idx, step_input, attempt, result, error, started,
      resumes, base, exec_calls, sleeps, io_failed, appended, replayed,
      ingest, evidence, validation, call, scan, append_tasks, queue_workers>>

\* The sync service writes the watched file (creating it, growing it or
\* rewriting it); its mtime becomes the time of the write.
FileWrite ==
    /\ \E path \in WatchedPaths, content \in WatchedContents :
          /\ fs = NoFile \/ fs.path = path
          /\ fs' = [path |-> path, exists |-> TRUE, size |-> file_len(content),
                    mtime |-> now, content |-> content]
    /\ fs' # fs
    /\ UNCHANGED <<not_watcher, now, notified, pending, observed, loops, watch_ret,
                   event_tx>>

\* The debouncer delivers the events of the watched path to rx.
Notify ==
    /\ fs # NoFile
    /\ ~notified
    /\ notified' = TRUE
    /\ UNCHANGED <<not_watcher, now, fs, pending, observed, loops, watch_ret, event_tx>>

\* Time passes.
Tick ==
    /\ now + TickSecs <= MaxNow
    /\ now' = now + TickSecs
    /\ UNCHANGED <<not_watcher, fs, notified, pending, observed, loops, watch_ret,
                   event_tx>>

InitWatcher ==
    /\ pipeline = StorePipeline
    /\ orig_input = "x"
    /\ file = MissingFile
    /\ NoInvocation
    /\ appended = <<>>
    /\ replayed = <<>>
    /\ QueueIdle
    /\ WatcherIdle
    /\ ValidationIdle
    /\ NoPureCall
    /\ WorkersIdle
    /\ WritersIdle
    /\ ScanIdle
    /\ ResolverIdle

NextWatcher ==
    \/ LoopOnEvents
    \/ LoopOnTimeout
    \/ FileWrite
    \/ Notify
    \/ Tick

SpecWatcher == InitWatcher /\ [][NextWatcher]_vars

\* The watcher started on a queue file that earlier runs and the worker have
\* written: the recording of memo.m4a is unknown to the queue, or it is an item
\* that is Pending, Processing, Done or Failed.
WatchedItem == QueueEvent(compute_file_hash("c1"), "Enqueued",
                          QueueItemData("memo.m4a", file_len("c1"), 0), "")
WatchedItemEvent(type, err) == QueueEvent(compute_file_hash("c1"), type, NoData, err)
WatchedQueueLogs ==
    {<<>>,
     <<WatchedItem>>,
     <<WatchedItem, WatchedItemEvent("ProcessingStarted", "")>>,
     <<WatchedItem, WatchedItemEvent("ProcessingStarted", ""),
       WatchedItemEvent("Completed", "")>>,
     <<WatchedItem, WatchedItemEvent("ProcessingStarted", ""),
       WatchedItemEvent("Failed", "e")>>}

InitWatchQueue ==
    /\ pipeline = StorePipeline
    /\ orig_input = "x"
    /\ file = MissingFile
    /\ NoInvocation
    /\ appended = <<>>
    /\ replayed = <<>>
    /\ queue_log \in WatchedQueueLogs
    /\ queue_ret = NoQueueCall
    /\ WatcherIdle
    /\ ValidationIdle
    /\ NoPureCall
    /\ WorkersIdle
    /\ WritersIdle
    /\ ScanIdle
    /\ ResolverIdle

SpecWatchQueue == InitWatchQueue /\ [][NextWatcher]_vars

\* ========================================================= the span resolver
\* Texts hold at most MaxTextLen bytes and quotes at most MaxQuoteLen, over
\* the bytes of Bytes (32 is the space).
MaxTextLen == 4
MaxQuoteLen == 3
Bytes == {32, 97, 98}
Whitespace == {32}

SeqsUpTo(n) == UNION {[1..k -> Bytes] : k \in 0..n}
Texts == SeqsUpTo(MaxTextLen)
Quotes == SeqsUpTo(MaxQuoteLen)

\* &transcript[start..end], with the offsets of the source (from 0, end excluded)
slice(transcript, start, end) == SubSeq(transcript, start + 1, end)

\* The loop of find_exact_matches from window i on, with an upper limit `last`.
RECURSIVE matches_from(_, _, _, _)
matches_from(transcript, q, i, last) ==
    IF i > last
    THEN <<>>
    ELSE (IF slice(transcript, i, i + Len(q)) = q THEN <<<<i, i + Len(q)>>>> ELSE <<>>)
         \o matches_from(transcript, q, i + 1, last)

\* A search whose last window is left out (0..n-m instead of 0..=n-m).
find_exact_matches_exclusive(transcript, q) ==
    IF q = <<>> \/ Len(q) > Len(transcript)
    THEN <<>>
    ELSE matches_from(transcript, q, 0, Len(transcript) - Len(q) - 1)

\* find_exact_matches(transcript, quote)
find_exact_matches(transcript, q) ==
    IF q = <<>> \/ Len(q) > Len(transcript)
    THEN <<>>
    ELSE matches_from(transcript, q, 0, Len(transcript) - Len(q))

\* str::split_whitespace: the maximal runs of non-whitespace bytes, in order.
RECURSIVE split_whitespace(_)
split_whitespace(t) ==
    IF t = <<>>
    THEN <<>>
    ELSE IF Head(t) \in Whitespace
         THEN split_whitespace(Tail(t))
         ELSE LET rest == split_whitespace(Tail(t))
              IN IF Len(t) > 1 /\ t[2] \notin Whitespace
                 THEN <<<<Head(t)>> \o Head(rest)>> \o Tail(rest)
                 ELSE <<<<Head(t)>>>> \o rest

\* [String]::join(" ")
RECURSIVE join(_)
join(words) ==
    IF words = <<>>
    THEN <<>>
    ELSE IF Len(words) = 1
         THEN Head(words)
         ELSE Head(words) \o <<32>> \o join(Tail(words))

\* normalize_whitespace(text)
normalize_whitespace(t) == join(split_whitespace(t))

\* str::contains
contains(t, q) ==
    \E i \in 0..Len(t) : i + Len(q) <= Len(t) /\ slice(t, i, i + Len(q)) = q

\* has_normalized_match(transcript, quote)
has_normalized_match(transcript, q) ==
    contains(normalize_whitespace(transcript), normalize_whitespace(q))

MatchResult(matches, normalized_hint) ==
    [called |-> TRUE, matches |-> matches, normalized_hint |-> normalized_hint]

\* A find_quote that looks for the normalized quote whatever the exact search found.
find_quote_hint_always(transcript, q) ==
    MatchResult(find_exact_matches(transcript, q), has_normalized_match(transcript, q))

\* find_quote(transcript, quote)
find_quote(transcript, q) ==
    LET matches == find_exact_matches(transcript, q)
    IN MatchResult(matches,
                   IF matches = <<>> THEN has_normalized_match(transcript, q) ELSE FALSE)

\* A status that never reports more than one match.
status_without_ambiguous(r) == IF Len(r.matches) = 0 THEN "Unresolved" ELSE "Resolved"

\* MatchResult::status
status(r) ==
    CASE Len(r.matches) = 0 -> "Unresolved"
      [] Len(r.matches) = 1 -> "Resolved"
      [] OTHER -> "Ambiguous"

\* MatchResult::selected_match, where there is one
selected_match(r) == r.matches[1]

\* MatchResult::match_info
match_info(r) == <<Len(r.matches), 1>>

\* Evidence.span = None
NoSpan == [artifact |-> "none", utf8_byte_offset |-> <<0, 0>>, slice_sha256 |-> <<>>]
\* The status, resolution and span of the Evidence Evidence::new_unresolved builds.
new_unresolved(normalized_hint) ==
    [status |-> "Unresolved",
     resolution |-> [method |-> IF normalized_hint THEN "NormalizedHint" ELSE "None",
                     match_count |-> 0,
                     match_rank |-> 0,
                     reason |-> IF normalized_hint THEN "NormalizedMatchOnly"
                                ELSE "NoMatch"],
     span |-> NoSpan]

\* compute_hash(bytes): SHA-256, taken to be free of collisions
compute_hash(bytes) == <<"sha256:", bytes>>

\* compute_slice_hash(transcript, start, end)
compute_slice_hash(transcript, start, end) == compute_hash(slice(transcript, start, end))

not_resolver ==
    <<pipeline, orig_input, file, artifacts_dir, pc, op, input, run, tracker,
      elapsed, artifacts, step_idx, step_input, attempt, result, error, started,
      resumes, base, exec_calls, sleeps, io_failed, appended, replayed,
      ingest, watch, validation, call, scan, append_tasks, queue_workers>>

InitResolver ==
    /\ pipeline = StorePipeline
    /\ orig_input = "x"
    /\ file = MissingFile
    /\ NoInvocation
    /\ appended = <<>>
    /\ replayed = <<>>
    /\ QueueIdle
    /\ WatcherIdle
    /\ ValidationIdle
    /\ NoPureCall
    /\ WorkersIdle
    /\ WritersIdle
    /\ ScanIdle
    /\ text \in Texts
    /\ quote \in Quotes
    /\ span_ret = NoSpanCall

\* A call of find_quote(text, quote).
FindQuote ==
    /\ span_ret' = find_quote(text, quote)
    /\ UNCHANGED <<not_resolver, text, quote>>

NextResolver == FindQuote

SpecResolver == InitResolver /\ [][NextResolver]_vars

\* ======================================================= evidence validation
\* evidence.jsonl holds at most MaxEvidence records.
MaxEvidence == 2

ArtifactNames == {"a.md", "b.md"}
\* Bytes that are not UTF-8.
InvalidUtf8 == <<255>>
ArtifactContents == {<<97>>, <<97, 98>>, InvalidUtf8}
\* The artifact files a content directory can hold.
ContentDirs == UNION {[D -> ArtifactContents] : D \in SUBSET ArtifactNames}
\* The artifact_digests metadata.json can record (none when the file is
\* missing or does not parse).
Metadatas ==
    UNION {[D -> {compute_hash(<<97>>), compute_hash(<<97, 98>>)}] :
              D \in SUBSET ArtifactNames}

Span(artifact, start, end, slice_sha256) ==
    [artifact |-> artifact, utf8_byte_offset |-> <<start, end>>,
     slice_sha256 |-> slice_sha256]
\* The offsets evidence.jsonl can record: within a file, beyond its end, and
\* with the end before the start.
SpanOffsets == {<<0, 1>>, <<1, 2>>, <<1, 0>>}
\* The evidence records of evidence.jsonl, reduced to their span.
EvidenceEntries ==
    {[span |-> NoSpan]}
    \cup {[span |-> Span(a, o[1], o[2], h)] :
             a \in ArtifactNames, o \in SpanOffsets,
             h \in {compute_hash(<<97>>), compute_hash(<<98>>)}}
EvidenceLists == UNION {[1..n -> EvidenceEntries] : n \in 0..MaxEvidence}

EvidenceValidated(artifact, digest_ok, valid_count, stale_count, unresolved_count) ==
    [artifact |-> artifact, digest_ok |-> digest_ok, valid_count |-> valid_count,
     stale_count |-> stale_count, unresolved_count |-> unresolved_count]

\* execute_validate's grouping of the evidence that has a span by its artifact.
by_artifact(list) ==
    [name \in {list[i].span.artifact : i \in {j \in 1..Len(list) : list[j].span # NoSpan}}
        |-> SelectSeq(list, LAMBDA e : e.span # NoSpan /\ e.span.artifact = name)]

\* The per-span check of execute_validate on the artifact's bytes: the slice
\* transcript[start..end] panics when start > end.
span_check(transcript_bytes, span) ==
    LET start == span.utf8_byte_offset[1]
        end == span.utf8_byte_offset[2]
    IN IF end <= Len(transcript_bytes)
       THEN IF start > end
            THEN "panic"
            ELSE IF compute_slice_hash(transcript_bytes, start, end) = span.slice_sha256
                 THEN "valid"
                 ELSE "stale"
       ELSE "stale"

Count(group, outcome, bytes) ==
    Cardinality({i \in 1..Len(group) : span_check(bytes, group[i].span) = outcome})

\* The body of execute_validate's loop for one artifact group: how it ends and
\* the events it appends.
validate_group(artifact_name, group) ==
    IF artifact_name \notin DOMAIN content_dir
    THEN [ret |-> "Ok",
          events |-> <<EvidenceValidated(artifact_name, FALSE, 0, 0, Len(group))>>]
    ELSE LET bytes == content_dir[artifact_name]
         IN IF bytes = InvalidUtf8
            THEN \* read_to_string fails
                 [ret |-> "Err", events |-> <<>>]
            ELSE IF /\ artifact_name \in DOMAIN metadata
                    /\ compute_hash(bytes) = metadata[artifact_name]
                 THEN [ret |-> "Ok",
                       events |-> <<EvidenceValidated(artifact_name, TRUE, Len(group),
                                                      0, 0)>>]
                 ELSE IF Count(group, "panic", bytes) > 0
                      THEN [ret |-> "Panic", events |-> <<>>]
                      ELSE [ret |-> "Ok",
                            events |-> <<EvidenceValidated(artifact_name, FALSE,
                                                           Count(group, "valid", bytes),
                                                           Count(group, "stale", bytes),
                                                           0)>>]

\* execute_validate's loop over the groups, in the order `ord` of the HashMap.
RECURSIVE validate_groups(_, _)
validate_groups(groups, ord) ==
    IF ord = <<>>
    THEN [ret |-> "Ok", events |-> <<>>]
    ELSE LET g == validate_group(Head(ord), groups[Head(ord)])
         IN IF g.ret # "Ok"
            THEN g
            ELSE LET rest == validate_groups(groups, Tail(ord))
                 IN [ret |-> rest.ret, events |-> g.events \o rest.events]

\* The orders in which a HashMap with the keys S can be iterated.
Orders(S) ==
    {f \in [1..Cardinality(S) -> S] : \A i, j \in 1..Cardinality(S) : i # j => f[i] # f[j]}

\* execute_validate(content_id), its groups visited in the order `ord`
execute_validate(ord) ==
    IF evidence_list = <<>>
    THEN [ret |-> "Ok", events |-> <<EvidenceValidated("transcript.md", TRUE, 0, 0, 0)>>]
    ELSE validate_groups(by_artifact(evidence_list), ord)

not_validation ==
    <<pipeline, orig_input, file, artifacts_dir, pc, op, input, run, tracker,
      elapsed, artifacts, step_idx, step_input, attempt, result, error, started,
      resumes, base, exec_calls, sleeps, io_failed, appended, replayed,
      ingest, watch, evidence, call, scan, append_tasks, queue_workers>>

InitValidate ==
    /\ pipeline = StorePipeline
    /\ orig_input = "x"
    /\ file = MissingFile
    /\ NoInvocation
    /\ appended = <<>>
    /\ replayed = <<>>
    /\ QueueIdle
    /\ WatcherIdle
    /\ ResolverIdle
    /\ NoPureCall
    /\ WorkersIdle
    /\ WritersIdle
    /\ ScanIdle
    /\ evidence_list \in EvidenceLists
    /\ content_dir \in ContentDirs
    /\ metadata \in Metadatas
    /\ evidence_events = <<>>
    /\ validate_ret = "none"

\* One run of `evidence validate`.
ExecuteValidate ==
    /\ validate_ret = "none"
    /\ \E ord \in Orders(DOMAIN by_artifact(evidence_list)) :
          /\ evidence_events' = evidence_events \o execute_validate(ord).events
          /\ validate_ret' = execute_validate(ord).ret
    /\ UNCHANGED <<not_validation, evidence_list, content_dir, metadata>>

NextValidate == ExecuteValidate

SpecValidate == InitValidate /\ [][NextValidate]_vars

\* ================================================================= scan_once
\* scan_once is called at most MaxScans times.
MaxScans == 2

\* The entries the watched directory can hold.
ScanPaths == {"memo.qta", "memo.m4a", "notes.txt"}
ScanEntry(is_file, content, mtime) ==
    [is_file |-> is_file, size |-> file_len(content), mtime |-> mtime,
     content |-> content]

\* VoiceMemoWatcher::is_audio_file
is_audio_file(path) == extension(path) \in extensions

\* ScanResult::default()
NewScanResult ==
    [new_files |-> 0, already_queued |-> 0, already_processed |-> 0,
     reset_for_retry |-> 0, deferred |-> 0, errors |-> 0]

\* What the probe, the transcode and the enqueue of an entry may do.
ScanFates == {"ok", "probe_fails", "normalize_fails", "enqueue_fails"}

\* The fates of the entries of a directory: only a regular audio file is
\* probed, transcoded or enqueued, and only a .qta file is probed.
ScanFateMaps(dir) ==
    {f \in [DOMAIN dir -> ScanFates] :
        \A p \in DOMAIN dir :
           /\ ~(is_audio_file(p) /\ dir[p].is_file) => f[p] = "ok"
           /\ ~is_qta_file(p) => f[p] # "probe_fails"}

\* scan_once's age test: the file was modified less than MIN_FILE_AGE_SECS ago.
too_recent(entry, t) == t - entry.mtime < MIN_FILE_AGE_SECS

\* The body of scan_once's loop for one directory entry at instant t; acc holds
\* the queue log, the counters and the paths given to enqueue so far.
scan_entry(path, entry, fate, t, acc) ==
    LET npath == normalized_path(path)
        hash == compute_file_hash(normalized_content(path, entry.content))
        data == QueueItemData(npath, entry.size, t)
        res == enqueue_result(queue_replay(acc.log), hash)
        deferred == [acc EXCEPT !.result.deferred = @ + 1]
    IN  IF ~is_audio_file(path) \/ ~entry.is_file THEN acc
        ELSE IF too_recent(entry, t) THEN deferred
        ELSE IF is_qta_file(path) /\ fate = "probe_fails" THEN deferred
        ELSE IF fate = "normalize_fails" THEN deferred
        ELSE IF fate = "enqueue_fails"
             THEN [acc EXCEPT !.result.errors = @ + 1,
                              !.offered = @ \cup {path}]
        ELSE CASE res = "Queued" ->
                    [log |-> append_event(acc.log, QueueEvent(hash, "Enqueued", data, "")),
                     result |-> [acc.result EXCEPT !.new_files = @ + 1],
                     offered |-> acc.offered \cup {path}]
               [] res = "AlreadyQueued" ->
                    [acc EXCEPT !.result.already_queued = @ + 1,
                                !.offered = @ \cup {path}]
               [] res = "AlreadyProcessed" ->
                    [acc EXCEPT !.result.already_processed = @ + 1,
                                !.offered = @ \cup {path}]
               [] OTHER ->
                    [log |-> append_event(acc.log,
                                          QueueEvent(hash, "ResetForRetry", NoData, "")),
                     result |-> [acc.result EXCEPT !.reset_for_retry = @ + 1],
                     offered |-> acc.offered \cup {path}]

\* scan_once's loop over the entries, in the order read_dir yields them.
RECURSIVE scan_entries(_, _, _, _, _)
scan_entries(ord, dir, fate, t, acc) ==
    IF ord = <<>> THEN acc
    ELSE scan_entries(Tail(ord), dir, fate, t,
                      scan_entry(Head(ord), dir[Head(ord)], fate[Head(ord)], t, acc))

\* scan_once(queue) on the directory as it is.
scan_once(ord, fate) ==
    scan_entries(ord, scan_dir, fate, now,
                 [log |-> queue_log, result |-> NewScanResult, offered |-> {}])

not_scan ==
    <<pipeline, orig_input, file, artifacts_dir, pc, op, input, run, tracker,
      elapsed, artifacts, step_idx, step_input, attempt, result, error, started,
      resumes, base, exec_calls, sleeps, io_failed, appended, replayed,
      evidence, validation, call, append_tasks, queue_workers>>

\* A call of scan_once: one metadata reading per audio file.
ScanOnce ==
    /\ Len(scan_rets) < MaxScans
    /\ \E ord \in Orders(DOMAIN scan_dir), fate \in ScanFateMaps(scan_dir) :
          LET out == scan_once(ord, fate)
          IN /\ Len(out.log) <= MaxQueueLog
             /\ queue_log' = out.log
             /\ scan_rets' = Append(scan_rets,
                                    [at |-> now, dir |-> scan_dir, fate |-> fate,
                                     before |-> queue_log, after |-> out.log,
                                     result |-> out.result, offered |-> out.offered,
                                     readings |-> 1])
    /\ UNCHANGED <<not_scan, queue_ret, watch, scan_dir>>

\* The sync service creates an entry of the directory or rewrites a file; the
\* mtime of an audio file becomes the time of the write (scan_once reads the
\* mtime of no other entry).  The directory is left alone once scanning has
\* begun.
DirWrite ==
    /\ scan_rets = <<>>
    /\ \E path \in ScanPaths, content \in WatchedContents, is_file \in BOOLEAN :
          /\ path \in DOMAIN scan_dir => scan_dir[path].is_file /\ is_file
          /\ ~is_file => path = "memo.m4a" /\ content = ""
          /\ path = "notes.txt" => content = "c1"
          /\ scan_dir' = Put(scan_dir, path,
                              ScanEntry(is_file, content,
                                        IF is_audio_file(path) /\ is_file THEN now ELSE 0))
    /\ scan_dir' # scan_dir
    /\ UNCHANGED <<not_scan, ingest, watch, scan_rets>>

InitScan ==
    /\ pipeline = StorePipeline
    /\ orig_input = "x"
    /\ file = MissingFile
    /\ NoInvocation
    /\ appended = <<>>
    /\ replayed = <<>>
    /\ queue_log \in WatchedQueueLogs
    /\ queue_ret = NoQueueCall
    /\ WatcherIdle
    /\ ValidationIdle
    /\ NoPureCall
    /\ WorkersIdle
    /\ WritersIdle
    /\ ScanIdle
    /\ ResolverIdle

NextScan ==
    \/ ScanOnce
    \/ DirWrite
    \/ Tick

SpecScan == InitScan /\ [][NextScan]_vars

\* ====================================================== concurrent appenders
\* Each task appends at most MaxAppends events.
MaxAppends == 2

\* The events the tasks append, in each task's own order.
TaskEvents ==
    [t \in Tasks |->
        IF t = 1
        THEN <<Event("StepStarted", "A", "r1:A:k", NoError),
               Event("StepCompleted", "A", "r1:A:k", NoError),
               Event("RunCompleted", NoStep, "r1:complete", NoError)>>
        ELSE <<Event("StepStarted", "B", "r2:B:k", NoError),
               Event("StepFailed", "B", "r2:B:k", "ExecutorError"),
               Event("RunFailed", NoStep, "r2:complete", "ExecutorError")>>]

\* A write that lands at the offset the handle had when it was opened.
write_line_at_offset(f, offset, e) ==
    [exists |-> TRUE,
     lines |-> SubSeq(f.lines, 1, offset) \o <<JsonLine(e)>>
               \o SubSeq(f.lines, offset + 2, Len(f.lines))]

\* write_all of one line on a handle opened with append(true): the line goes to
\* the end of the file, wherever the end was when the handle was opened.
write_line(f, offset, e) == append(f, e)

not_append_tasks ==
    <<pipeline, orig_input, artifacts_dir, pc, op, input, run, tracker,
      elapsed, artifacts, step_idx, step_input, attempt, result, error, started,
      resumes, base, exec_calls, sleeps, io_failed, appended, replayed,
      ingest, watch, evidence, validation, call, scan, queue_workers>>

\* append, first await: OpenOptions::new().create(true).append(true).open(..)
AppendOpen ==
    \E t \in Tasks :
        /\ writers[t].pc = "idle"
        /\ writers[t].n < MaxAppends
        /\ writers' = [writers EXCEPT ![t].pc = "opened",
                                      ![t].offset = Len(file.lines)]
        /\ file' = [file EXCEPT !.exists = TRUE]
        /\ UNCHANGED not_append_tasks

\* append, second await: write_all of the serialized event and the newline.
AppendWrite ==
    \E t \in Tasks :
        /\ writers[t].pc = "opened"
        /\ file' = write_line(file, writers[t].offset, TaskEvents[t][writers[t].n + 1])
        /\ writers' = [writers EXCEPT ![t].pc = "written"]
        /\ UNCHANGED not_append_tasks

\* append, third await: flush returns and append returns Ok.
AppendFlush ==
    \E t \in Tasks :
        /\ writers[t].pc = "written"
        /\ writers' = [writers EXCEPT ![t].pc = "idle", ![t].n = @ + 1]
        /\ UNCHANGED <<not_append_tasks, file>>

InitAppend ==
    /\ pipeline = StorePipeline
    /\ orig_input = "x"
    /\ file = MissingFile
    /\ NoInvocation
    /\ appended = <<>>
    /\ replayed = <<>>
    /\ QueueIdle
    /\ WatcherIdle
    /\ ValidationIdle
    /\ NoPureCall
    /\ WorkersIdle
    /\ ScanIdle
    /\ WritersIdle
    /\ ResolverIdle

NextAppend ==
    \/ AppendOpen
    \/ AppendWrite
    \/ AppendFlush

SpecAppend == InitAppend /\ [][NextAppend]_vars

\* ========================================================== queue workers
not_queue_workers ==
    <<pipeline, orig_input, file, artifacts_dir, pc, op, input, run, tracker,
      elapsed, artifacts, step_idx, step_input, attempt, result, error, started,
      resumes, base, exec_calls, sleeps, io_failed, appended, replayed,
      watch, evidence, validation, call, scan, append_tasks>>

\* mark_processing(id), first await: replay the log and test the item.  A
\* refused call returns at once: the command ends with the error, and the
\* worker makes its next call in a later run of the command.
WorkerReplays ==
    \E w \in Workers, id \in QueueIds :
        LET res == mark_processing_result(queue_replay(queue_log), id)
        IN /\ \/ workers[w].pc = "idle"
              \/ workers[w].pc = "returned" /\ workers[w].result # "Ok"
           /\ workers' = [workers EXCEPT
                             ![w] = [pc |-> IF res = "Ok" THEN "checked" ELSE "returned",
                                     id |-> id,
                                     result |-> IF res = "Ok" THEN "" ELSE res]]
           /\ UNCHANGED <<not_queue_workers, ingest>>

\* mark_processing(id), second await: append ProcessingStarted, return Ok.
WorkerAppends ==
    \E w \in Workers :
        /\ workers[w].pc = "checked"
        /\ Len(queue_log) < MaxQueueLog
        /\ queue_log' = append_event(queue_log,
                                     QueueEvent(workers[w].id, "ProcessingStarted",
                                                NoData, ""))
        /\ workers' = [workers EXCEPT ![w].pc = "returned", ![w].result = "Ok"]
        /\ UNCHANGED <<not_queue_workers, queue_ret>>

\* The item was sent, or sending failed: mark_done(id) or mark_failed(id, e),
\* and the worker goes on to the next item.
WorkerFinishes ==
    \E w \in Workers, type \in {"Completed", "Failed"} :
        /\ workers[w].pc = "returned"
        /\ workers[w].result = "Ok"
        /\ Len(queue_log) < MaxQueueLog
        /\ queue_log' = append_event(queue_log,
                                     QueueEvent(workers[w].id, type, NoData,
                                                IF type = "Failed" THEN "e" ELSE ""))
        /\ workers' = [workers EXCEPT ![w] = NoWorkerCall]
        /\ UNCHANGED <<not_queue_workers, queue_ret>>

InitWorkers ==
    /\ pipeline = StorePipeline
    /\ orig_input = "x"
    /\ file = MissingFile
    /\ NoInvocation
    /\ appended = <<>>
    /\ replayed = <<>>
    /\ queue_log \in WatchedQueueLogs
    /\ queue_ret = NoQueueCall
    /\ WatcherIdle
    /\ ValidationIdle
    /\ NoPureCall
    /\ WorkersIdle
    /\ WritersIdle
    /\ ScanIdle
    /\ ResolverIdle

\* The watcher goes on enqueueing while the workers run.
NextWorkers ==
    \/ Enqueue
    \/ WorkerReplays
    \/ WorkerAppends
    \/ WorkerFinishes

SpecWorkers == InitWorkers /\ [][NextWorkers]_vars

\* ========================================================= stateless functions
\* Retry policies with delays of 1..MaxDelayMs milliseconds and multipliers of
\* 1..MaxMultiplier, asked for the delay of attempts 1..MaxAttemptArg.
MaxDelayMs == 4
MaxMultiplier == 3
MaxAttemptArg == 4

DelayPolicies ==
    [max_attempts : {DefaultMaxAttempts}, initial_delay_ms : 1..MaxDelayMs,
     max_delay_ms : 1..MaxDelayMs, backoff_multiplier : 1..MaxMultiplier]

Call(fn, args, ret) == [fn |-> fn, args |-> args, ret |-> ret]

not_call ==
    <<pipeline, orig_input, file, artifacts_dir, pc, op, input, run, tracker,
      elapsed, artifacts, step_idx, step_input, attempt, result, error, started,
      resumes, base, exec_calls, sleeps, io_failed, appended, replayed,
      ingest, watch, evidence, validation, scan, append_tasks, queue_workers>>

InitCall ==
    /\ pipeline = StorePipeline
    /\ orig_input = "x"
    /\ file = MissingFile
    /\ NoInvocation
    /\ appended = <<>>
    /\ replayed = <<>>
    /\ QueueIdle
    /\ WatcherIdle
    /\ ResolverIdle
    /\ ValidationIdle
    /\ NoPureCall
    /\ WorkersIdle
    /\ WritersIdle
    /\ ScanIdle

\* A call of policy.delay_for_attempt(n).
DelayForAttempt ==
    /\ NoPureCall
    /\ \E policy \in DelayPolicies, n \in 1..MaxAttemptArg :
          call' = Call("delay_for_attempt", <<policy, n>>, delay_for_attempt(policy, n))
    /\ UNCHANGED not_call

\* usize::to_string: the decimal digits.
Digit(d) ==
    CASE d = 0 -> "0" [] d = 1 -> "1" [] d = 2 -> "2" [] d = 3 -> "3" [] d = 4 -> "4"
      [] d = 5 -> "5" [] d = 6 -> "6" [] d = 7 -> "7" [] d = 8 -> "8" [] d = 9 -> "9"
RECURSIVE to_string(_)
to_string(n) == IF n < 10 THEN Digit(n) ELSE to_string(n \div 10) \o Digit(n % 10)

\* span = None
NoSpanArg == <<>>
\* compute_evidence_id(content_id, extractor, quote_sha256, span): the first 8
\* bytes of the SHA-256 of everything the hasher was fed, taken to be free of
\* collisions.
compute_evidence_id(content_id, extractor, quote_sha256, span) ==
    <<"sha256[..8]",
      content_id \o extractor \o quote_sha256
      \o (IF span # NoSpanArg THEN to_string(span[1]) \o to_string(span[2]) ELSE "")>>

\* The offsets of the spans compute_evidence_id is called with.
EvidenceOffsets == {1, 11, 12, 112}
IdTuples ==
    [content_id : {"c", "cd"}, extractor : {"e", "de"}, quote_sha256 : {"sha256:q"},
     span : {NoSpanArg}
            \cup {se \in EvidenceOffsets \X EvidenceOffsets : se[1] <= se[2]}]
evidence_id(t) == compute_evidence_id(t.content_id, t.extractor, t.quote_sha256, t.span)

\* Two calls of compute_evidence_id.
ComputeEvidenceId ==
    /\ NoPureCall
    /\ \E t1, t2 \in IdTuples :
          call' = Call("compute_evidence_id", <<t1, t2>>, <<evidence_id(t1), evidence_id(t2)>>)
    /\ UNCHANGED not_call

\* Step timeouts and the policy's step timeout run over 1..MaxTimeoutSecs seconds.
MaxTimeoutSecs == 3
\* Step::timeout_seconds: None, or Some(n)
None == {}
Some(n) == {n}
unwrap_or(opt, default) == IF opt = None THEN default ELSE CHOOSE n \in opt : TRUE

\* Step::timeout(limits), in seconds: what the orchestrator hands to
\* fabric_adapter.execute.
timeout(timeout_seconds, lim) == unwrap_or(timeout_seconds, lim.step_timeout_seconds)

\* A call of step.timeout(limits).
StepTimeout ==
    /\ NoPureCall
    /\ \E timeout_seconds \in {None} \cup {Some(n) : n \in 1..MaxTimeoutSecs},
          lim \in [step_timeout_seconds : 1..MaxTimeoutSecs] :
          call' = Call("timeout", <<timeout_seconds, lim>>, timeout(timeout_seconds, lim))
    /\ UNCHANGED not_call

\* The pipelines given to Pipeline::validate have at most MaxValidateLen steps.
MaxValidateLen == 3
\* Their steps: the name may be empty, the input may refer to A, to B or to a
\* step C that no pipeline has.
ValidateSteps ==
    [name : {"", "A", "B"},
     input_from : {PipelineInput, PreviousStep("A"), PreviousStep("B"),
                   PreviousStep("C"), ArtifactRef("B")},
     retry_policy : {[max_attempts |-> DefaultMaxAttempts, initial_delay_ms |-> 1,
                      max_delay_ms |-> 10, backoff_multiplier |-> 2]}]
ValidatePipelines ==
    [name : {"", "p"},
     steps : UNION {[1..n -> ValidateSteps] : n \in 0..MaxValidateLen}]

\* Pipeline::validate: "Ok", or "Err" for each bail!
validate_pipeline(p) ==
    IF /\ p.name # ""
       /\ \A i \in 1..Len(p.steps) : p.steps[i].name # ""
       /\ validate(p.steps)
    THEN "Ok"
    ELSE "Err"

\* A call of pipeline.validate().
ValidatePipeline ==
    /\ NoPureCall
    /\ \E p \in ValidatePipelines : call' = Call("validate", <<p>>, validate_pipeline(p))
    /\ UNCHANGED not_call

NextCall ==
    \/ DelayForAttempt
    \/ ComputeEvidenceId
    \/ StepTimeout
    \/ ValidatePipeline

SpecCall == InitCall /\ [][NextCall]_vars

\* =================================================================== claims
\* The events in the file, by position (the orchestrator writes no blank line).
Log == [i \in 1..Len(file.lines) |-> file.lines[i].json]
Last(s) == s[Len(s)]
NewEvents == {i \in 1..Len(Log) : i > base}
HasType(L, i, t) == L[i].event_type = t
NumCompleted(L) == Cardinality({i \in 1..Len(L) : HasType(L, i, "StepCompleted")})

\* e is a step event for idempotency key k (a StepRetrying event carries the
\* key with a ":retry:{n}" suffix).
EventOfKey(e, k) ==
    \/ e.event_type \in {"StepStarted", "StepCompleted", "StepFailed"}
       /\ e.idempotency_key = k
    \/ e.event_type = "StepRetrying"
       /\ \E n \in 1..(DefaultMaxAttempts + 1) : e.idempotency_key = retry_key(k, n)

\* C1: once the log holds StepCompleted for an idempotency key, no step of
\* run_pipeline or resume_run appends a StepStarted, StepRetrying,
\* StepCompleted or StepFailed event for that key, and none invokes the
\* executor for it.
C1_NoReexecution ==
    [][\A i \in 1..Len(Log) :
          HasType(Log, i, "StepCompleted") =>
             /\ \A j \in (Len(Log) + 1)..Len(Log') :
                   ~EventOfKey(Log'[j], Log[i].idempotency_key)
             /\ \A j \in (Len(exec_calls) + 1)..Len(exec_calls') :
                   exec_calls'[j].key # Log[i].idempotency_key]_vars

\* C1 witness: resume_run has passed over a step whose key was completed.
C1_SkippedOnResume ==
    /\ op = "resume_run"
    /\ pc = "loop"
    /\ step_idx > NumCompleted(Log)

\* C2: pipeline [A, B] with B fed by previous step A, stopped after
\* StepCompleted(A) and before StepStarted(B): resume_run with the same input
\* appends StepStarted(B) first, gives B the stored artifact of A, and ends
\* with RunCompleted (unless the executor or a safety limit stops it).
C2_Scenario ==
    /\ op = "resume_run"
    /\ input = orig_input
    /\ Len(steps) = 2
    /\ steps[1].name = "A" /\ steps[1].input_from = PipelineInput
    /\ steps[2].name = "B" /\ steps[2].input_from = PreviousStep("A")
    /\ base >= 3
    /\ HasType(Log, base, "StepCompleted") /\ Log[base].step_id = "A"
    /\ \A i \in 1..base : Log[i].step_id # "B"
                          /\ Log[i].event_type \notin TerminalEventTypes

C2_ResumeRunsB ==
    (/\ pc = "returned"
     /\ ~io_failed
     /\ validate(steps)
     /\ C2_Scenario
     /\ \A i \in NewEvents : ~HasType(Log, i, "SafetyLimitReached"))
    => /\ Len(Log) > base
       /\ HasType(Log, base + 1, "StepStarted") /\ Log[base + 1].step_id = "B"
       /\ \E c \in 1..Len(exec_calls) :
             exec_calls[c].step = "B" /\ exec_calls[c].input = artifacts_dir["A"]
       /\ \/ HasType(Log, Len(Log), "RunCompleted")
          \/ \E i \in NewEvents :
                Log[i].event_type \in {"StepRetrying", "StepFailed", "RunFailed"}

\* C3: a run_pipeline call that returns Ok on a pipeline that validate
\* accepts, with every executor call succeeding at once and no safety limit
\* tripping, leaves exactly RunStarted,
\* StepStarted(s), StepCompleted(s) for each step s in order, RunCompleted.
RECURSIVE HappyEvents(_)
HappyEvents(ss) ==
    IF ss = <<>> THEN <<>>
    ELSE <<<<"StepStarted", Head(ss).name>>, <<"StepCompleted", Head(ss).name>>>>
         \o HappyEvents(Tail(ss))

HappyLog == <<<<"RunStarted", NoStep>>>> \o HappyEvents(steps)
            \o <<<<"RunCompleted", NoStep>>>>

Shape(L) == [i \in 1..Len(L) |-> <<L[i].event_type, L[i].step_id>>]

C3_HappyPathLog ==
    (/\ pc = "returned"
     /\ op = "run_pipeline"
     /\ validate(steps)
     /\ result = "Ok"
     /\ ~io_failed
     /\ \A i \in 1..Len(Log) :
           Log[i].event_type \notin
              {"StepRetrying", "StepFailed", "RunFailed", "SafetyLimitReached"})
    => Shape(Log) = HappyLog

\* C4: when run_pipeline or resume_run returns, Ok or Err, and no append
\* failed with an I/O error, the last event of the run's log is RunCompleted,
\* RunFailed or SafetyLimitReached.
C4_TerminalEventLast ==
    (pc = "returned" /\ ~io_failed /\ validate(steps) /\ Len(Log) > 0)
    => Last(Log).event_type \in TerminalEventTypes

\* The delay the specification gives for the retry after attempt n:
\* min(initial * multiplier^(n-1), max_delay).
ExpectedDelay(policy, n) ==
    Min(policy.initial_delay_ms * Pow(policy.backoff_multiplier, n - 1),
        policy.max_delay_ms)

\* C5: when the executor of a step succeeds after k < max_attempts failures,
\* the step's events of this invocation are StepStarted,
\* (StepRetrying j, StepStarted) for j = 1..k, StepCompleted, with no
\* StepFailed and a single StepCompleted for the key, and the sleep after the
\* j-th StepRetrying lasted min(initial * multiplier^(j-1), max_delay).
C5_RetryThenSucceed ==
    [][(pc = "exec" /\ pc' = "loop" /\ attempt - 1 < step.retry_policy.max_attempts) =>
         LET k == attempt - 1
             n == Len(Log')
             m == Len(sleeps')
         IN /\ n - 2 * k - 1 > base
            /\ HasType(Log', n, "StepCompleted")
            /\ Log'[n].idempotency_key = idem_key /\ Log'[n].step_id = step.name
            /\ \A j \in 0..k :
                  /\ HasType(Log', n - 2 * k - 1 + 2 * j, "StepStarted")
                  /\ Log'[n - 2 * k - 1 + 2 * j].idempotency_key = idem_key
            /\ \A j \in 1..k :
                  /\ HasType(Log', n - 2 * k - 2 + 2 * j, "StepRetrying")
                  /\ Log'[n - 2 * k - 2 + 2 * j].idempotency_key = retry_key(idem_key, j)
                  /\ sleeps'[m - k + j].key = idem_key
                  /\ sleeps'[m - k + j].delay = ExpectedDelay(step.retry_policy, j)
            /\ m >= k
            /\ Cardinality({i \in 1..n : i > base /\ HasType(Log', i, "StepRetrying")
                               /\ EventOfKey(Log'[i], idem_key)}) = k
            /\ Cardinality({i \in 1..n : HasType(Log', i, "StepCompleted")
                               /\ Log'[i].idempotency_key = idem_key}) = 1
            /\ \A i \in 1..n : i > base /\ HasType(Log', i, "StepFailed")
                               => Log'[i].idempotency_key # idem_key]_vars

\* C5 witness: a step completed on its third attempt, after sleeps of 1 ms
\* and 2 ms.
C5_TwoRetriesThenCompleted ==
    /\ pc = "loop"
    /\ attempt = 3
    /\ Len(Log) > base
    /\ HasType(Log, Len(Log), "StepCompleted")
    /\ Len(sleeps) >= 2
    /\ sleeps[Len(sleeps) - 1].delay = 1
    /\ sleeps[Len(sleeps)].delay = 2

\* What the events of a step whose every attempt failed must be, for `total`
\* executor calls: StepStarted, (StepRetrying j, StepStarted) for
\* j = 1..total-1, StepFailed, all of this invocation and for the step's key,
\* with `total` executor calls and one StepFailed.
FailedAfter(total) ==
    LET n == Len(Log')
        c == Len(exec_calls)
    IN /\ attempt = total
       /\ n - 2 * total + 1 > base
       /\ HasType(Log', n, "StepFailed")
       /\ Log'[n].idempotency_key = idem_key
       /\ \A j \in 0..(total - 1) :
             /\ HasType(Log', n - 2 * total + 1 + 2 * j, "StepStarted")
             /\ Log'[n - 2 * total + 1 + 2 * j].idempotency_key = idem_key
       /\ \A j \in 1..(total - 1) :
             /\ HasType(Log', n - 2 * total + 2 * j, "StepRetrying")
             /\ Log'[n - 2 * total + 2 * j].idempotency_key = retry_key(idem_key, j)
       /\ c >= total
       /\ \A j \in 1..total : exec_calls[c - total + j].key = idem_key
       /\ Cardinality({i \in 1..n : i > base /\ HasType(Log', i, "StepFailed")
                          /\ Log'[i].idempotency_key = idem_key}) = 1

\* A retry follows attempt n iff n < max_attempts, and RunFailed is appended
\* right after the StepFailed.
RetryIffBelowMax ==
    /\ (pc = "exec" /\ pc' = "sleep") => attempt < step.retry_policy.max_attempts
    /\ (pc = "exec" /\ pc' = "failing") => ~(attempt < step.retry_policy.max_attempts)
    /\ (pc = "failing" /\ pc' = "returned" /\ ~io_failed') =>
          /\ HasType(Log, Len(Log), "StepFailed")
          /\ Len(Log') = Len(Log) + 1
          /\ HasType(Log', Len(Log'), "RunFailed")

AtLeastOne(n) == IF n >= 1 THEN n ELSE 1

StepRuns(L) ==
    Cardinality({i \in 1..Len(L) :
                    HasType(L, i, "StepStarted")
                    /\ (i = 1 \/ ~HasType(L, i - 1, "StepRetrying"))})

\* C7: in a run_pipeline invocation no more than max_steps steps are begun;
\* the check before a step fails with MaxSteps exactly when
\* tracker.steps_executed >= max_steps, and then the invocation returns with
\* SafetyLimitReached as the one event appended (no StepStarted, no RunFailed).
C7_MaxSteps ==
    /\ [](op = "run_pipeline" => StepRuns(Log) <= limits.max_steps)
    /\ [][(AtStep /\ pc' # "idle" /\ ~io_failed') =>
            ((tracker.steps_executed >= limits.max_steps)
             <=> (/\ pc' = "returned"
                  /\ Len(Log') = Len(Log) + 1
                  /\ HasType(Log', Len(Log'), "SafetyLimitReached")
                  /\ Log'[Len(Log')].error = "MaxSteps"))]_vars

\* C7 witness: run_pipeline stopped by MaxSteps after executing max_steps >= 1
\* steps.
C7_StoppedByMaxSteps ==
    /\ pc = "returned"
    /\ op = "run_pipeline"
    /\ Len(Log) > 0
    /\ Last(Log).error = "MaxSteps"
    /\ limits.max_steps >= 1
    /\ StepRuns(Log) = limits.max_steps

\* C8: an invocation that met a MaxInput or MaxOutput violation returns with
\* SafetyLimitReached as the last event, and the log replays to run state
\* SafetyLimitReached.
C8_SizeViolationIsSafetyLimit ==
    (/\ pc = "returned"
     /\ ~io_failed
     /\ validate(steps)
     /\ Len(Log) > 0
     /\ \/ result = "Err" /\ error = "MaxInputBytes"
        \/ Len(Log) > base /\ Last(Log).error = "MaxOutputBytes")
    => /\ HasType(Log, Len(Log), "SafetyLimitReached")
       /\ from_events(Log).state.status = "SafetyLimitReached"

\* C9: every step leaves the lines already in events.jsonl where they were:
\* the file before is a prefix of the file after, and the file is not removed.
C9_AppendOnly ==
    [][/\ file.exists => file'.exists
       /\ IsPrefix(file.lines, file'.lines)]_vars

\* C9 witness: resume_run has appended to the log of an earlier invocation.
C9_ResumeAppended ==
    /\ op = "resume_run"
    /\ base >= 1
    /\ Len(file.lines) > base

\* C10: replay returns exactly the events given to append so far, in that
\* order, whatever blank lines the file holds; for a missing or empty file it
\* returns the empty sequence; a replay result is a prefix of what has been
\* appended since.
C10_ReplayExact ==
    /\ replay(file) = appended
    /\ (~file.exists \/ file.lines = <<>>) => replay(file) = <<>>
    /\ IsPrefix(replayed, appended)

\* C10 witness: replay returned both events of a file with a blank line
\* between them.
C10_BlankLineSkipped ==
    /\ Len(file.lines) = 3
    /\ file.lines[2].blank
    /\ Len(appended) = 2
    /\ replayed = appended

\* C11: is_step_completed(K) is true iff an event with idempotency key K and
\* kind StepCompleted has been appended; StepStarted, StepRetrying and
\* StepFailed events with key K do not make it true, nor does a StepCompleted
\* under another key; it is true in the state the StepCompleted append leaves.
C11_CompletedIffLogged ==
    /\ [](\A k \in StoreKeys :
            is_step_completed(file, k)
            <=> \E i \in 1..Len(appended) :
                   /\ appended[i].idempotency_key = k
                   /\ appended[i].event_type = "StepCompleted")
    /\ [][\A e \in StoreEvents :
            (appended' = Append(appended, e) /\ e.event_type = "StepCompleted")
            => is_step_completed(file', e.idempotency_key)]_vars

\* C11 witness: key K has StepStarted and StepFailed events and a StepCompleted
\* exists only under the other key.
C11_FailedStepNotCompleted ==
    /\ Len(appended) = 3
    /\ appended[1] = Event("StepStarted", "A", StoreKey, NoError)
    /\ appended[2] = Event("StepFailed", "A", StoreKey, "ExecutorError")
    /\ appended[3] = Event("StepCompleted", "B", StoreKeyB, NoError)
    /\ ~is_step_completed(file, StoreKey)
    /\ is_step_completed(file, StoreKeyB)

\* C12: when run_pipeline or resume_run returns Ok(run), the returned Run
\* agrees with Run::from_events of the log on the run state, current_step, the
\* per-step status map and the set of step names that have an artifact.
C12_RunIsCacheOfLog ==
    (/\ pc = "returned"
     /\ result = "Ok"
     /\ ~io_failed
     /\ validate(steps))
    => /\ run.state = from_events(Log).state
       /\ run.current_step = from_events(Log).current_step
       /\ run.step_statuses = from_events(Log).step_statuses
       /\ DOMAIN run.artifacts = DOMAIN from_events(Log).artifacts

\* The idempotency key of the first StepStarted event of a log (the empty
\* string when there is none).
FirstStartedKey(L) ==
    IF \E i \in 1..Len(L) : HasType(L, i, "StepStarted")
    THEN L[CHOOSE i \in 1..Len(L) :
              /\ HasType(L, i, "StepStarted")
              /\ \A j \in 1..(i - 1) : ~HasType(L, j, "StepStarted")].idempotency_key
    ELSE ""

\* C13: a resume_run whose supplied input gives the first step (fed by the
\* pipeline input) a fingerprint other than the one in the key of the log's
\* first StepStarted event executes no step, appends no step event and returns
\* an error.
C13_ResumeRejectsChangedInput ==
    (/\ op = "resume_run"
     /\ validate(steps)
     /\ steps[1].input_from = PipelineInput
     /\ FirstStartedKey(SubSeq(Log, 1, base)) # ""
     /\ FirstStartedKey(SubSeq(Log, 1, base))
           # RunId \o ":" \o steps[1].name \o ":" \o hash_input(input))
    => /\ pc # "exec"
       /\ \A i \in NewEvents : Log[i].event_type \notin StepEventTypes
       /\ pc = "returned" => result = "Err"

\* ------------------------------------------------------------- queue claims
EnqueuedCount(log, id) ==
    Cardinality({i \in 1..Len(log) :
                    log[i].event_type = "Enqueued" /\ log[i].item_id = id})

\* The step appended exactly one event, of this type, for this item.
QueueAppended(type, id) ==
    /\ Len(queue_log') = Len(queue_log) + 1
    /\ SubSeq(queue_log', 1, Len(queue_log)) = queue_log
    /\ queue_log'[Len(queue_log')].event_type = type
    /\ queue_log'[Len(queue_log')].item_id = id

\* The item's status before the step ("Unknown" for an id never enqueued).
StatusOf(log, id) ==
    IF id \in DOMAIN queue_replay(log) THEN queue_replay(log)[id].status ELSE "Unknown"

\* The step is a call of this queue operation that did not fail on I/O.
QueueCalled(o) == queue_ret'.op = o /\ queue_ret'.result # "Io"

\* C14: over any sequence of enqueue, mark_processing, mark_done and
\* mark_failed calls the queue log holds at most one Enqueued event per item
\* id, whatever path, size and detected_at later enqueue calls carry.
C14_OneEnqueuedPerItem ==
    \A id \in QueueIds : EnqueuedCount(queue_log, id) <= 1

\* C14 witness: the bytes of a queued item were enqueued again under another
\* path, size and detection time, and no Enqueued event was added.
C14_SameBytesOtherPath ==
    /\ queue_ret.op = "enqueue"
    /\ queue_ret.result = "AlreadyQueued"
    /\ EnqueuedCount(queue_log, queue_ret.id) = 1
    /\ \E i \in 1..Len(queue_log) :
          /\ queue_log[i].event_type = "Enqueued"
          /\ queue_log[i].item_id = queue_ret.id
          /\ queue_log[i].data.file_path # queue_ret.data.file_path
          /\ queue_log[i].data.file_size # queue_ret.data.file_size
          /\ queue_log[i].data.detected_at # queue_ret.data.detected_at

\* C15: a ResetForRetry event is appended exactly by an enqueue call on an
\* item whose state is Failed; the call returns reset-for-retry and leaves
\* the item Pending with retry_count one higher.  An item becomes Pending only
\* by its Enqueued event (unknown before) or by ResetForRetry (Failed before).
C15_ResetOnlyFromFailed ==
    [][\A id \in QueueIds :
          /\ (QueueCalled("enqueue") /\ queue_ret'.id = id
              /\ StatusOf(queue_log, id) = "Failed")
             => QueueAppended("ResetForRetry", id)
          /\ QueueAppended("ResetForRetry", id)
             => /\ QueueCalled("enqueue")
                /\ queue_ret'.id = id
                /\ queue_ret'.result = "ResetForRetry"
                /\ StatusOf(queue_log, id) = "Failed"
                /\ StatusOf(queue_log', id) = "Pending"
                /\ queue_replay(queue_log')[id].retry_count
                      = queue_replay(queue_log)[id].retry_count + 1
          /\ (StatusOf(queue_log, id) # "Pending" /\ StatusOf(queue_log', id) = "Pending")
             => \/ StatusOf(queue_log, id) = "Unknown" /\ QueueAppended("Enqueued", id)
                \/ StatusOf(queue_log, id) = "Failed"
                   /\ QueueAppended("ResetForRetry", id)]_vars

\* C15 witness: enqueue has reset a failed item, now Pending with one retry.
C15_FailedItemReset ==
    /\ queue_ret.op = "enqueue"
    /\ queue_ret.result = "ResetForRetry"
    /\ StatusOf(queue_log, queue_ret.id) = "Pending"
    /\ queue_replay(queue_log)[queue_ret.id].retry_count = 1

\* C16: enqueue on an item that is Pending, Processing or Done appends nothing
\* (so the derived state of every item is unchanged) and returns already-queued
\* for Pending and Processing, already-processed for Done.
C16_EnqueueNoEffect ==
    [][(QueueCalled("enqueue")
        /\ StatusOf(queue_log, queue_ret'.id) \in {"Pending", "Processing", "Done"})
       => /\ queue_log' = queue_log
          /\ queue_replay(queue_log') = queue_replay(queue_log)
          /\ queue_ret'.result =
                IF StatusOf(queue_log, queue_ret'.id) = "Done"
                THEN "AlreadyProcessed" ELSE "AlreadyQueued"]_vars

\* C16 witness: enqueue of a processed file returned already-processed.
C16_DoneItemEnqueued ==
    /\ queue_ret.op = "enqueue"
    /\ queue_ret.result = "AlreadyProcessed"
    /\ StatusOf(queue_log, queue_ret.id) = "Done"

\* What mark_processing does, given the error it returns for an item that is
\* not Pending.
MarkProcessingContract(err(_)) ==
    QueueCalled("mark_processing")
    => IF StatusOf(queue_log, queue_ret'.id) = "Pending"
       THEN /\ queue_ret'.result = "Ok"
            /\ QueueAppended("ProcessingStarted", queue_ret'.id)
       ELSE /\ queue_ret'.result = err(StatusOf(queue_log, queue_ret'.id))
            /\ queue_log' = queue_log

AlwaysInvalidTransition(was) == "InvalidTransition"
NotFoundOrInvalidTransition(was) ==
    IF was = "Unknown" THEN "NotFound" ELSE "InvalidTransition"

\* C17 (as claimed): mark_processing(id) succeeds, appending ProcessingStarted,
\* only when the item is Pending; in every other case it returns
\* InvalidTransition and appends nothing.
C17_InvalidTransitionOtherwise ==
    [][MarkProcessingContract(AlwaysInvalidTransition)]_vars

\* C17 (amended): in every other case it appends nothing and returns an error:
\* NotFound for an id never enqueued, InvalidTransition for an item that is
\* Processing, Done or Failed.
C17_ErrorOtherwise ==
    [][MarkProcessingContract(NotFoundOrInvalidTransition)]_vars

\* C17 witness: mark_processing of a processed item returned InvalidTransition.
C17_DoneItemRefused ==
    /\ queue_ret.op = "mark_processing"
    /\ queue_ret.result = "InvalidTransition"
    /\ StatusOf(queue_log, queue_ret.id) = "Done"

\* C18: get_pending returns exactly the Pending items, each once, and an item
\* with an earlier detected_at comes before one with a later detected_at.
C18_PendingOldestFirst ==
    (queue_ret.op = "get_pending" /\ queue_ret.result = "Ok")
    => LET its == queue_ret.items
       IN /\ {its[i].id : i \in 1..Len(its)}
                = {id \in QueueIds : StatusOf(queue_log, id) = "Pending"}
          /\ \A i, j \in 1..Len(its) : i # j => its[i].id # its[j].id
          /\ \A i \in 1..Len(its) : its[i] = queue_replay(queue_log)[its[i].id]
          /\ \A i, j \in 1..Len(its) :
                its[i].data.detected_at < its[j].data.detected_at => i < j

\* C18 witness: two Pending items returned, the older one first although it
\* was enqueued second and came back to Pending through ResetForRetry.
C18_RetriedItemFirst ==
    /\ queue_ret.op = "get_pending"
    /\ Len(queue_ret.items) = 2
    /\ queue_ret.items[1].retry_count = 1
    /\ queue_ret.items[1].data.detected_at < queue_ret.items[2].data.detected_at
    /\ queue_log[1].item_id = queue_ret.items[2].id

\* ------------------------------------------------------------ watcher claims
\* The last pass of the watch loop called queue.enqueue for the file.
OfferedNow == loops' = loops + 1 /\ watch_ret'.outcome = "offered"
Meta(r) == <<r.size, r.mtime>>
\* The position of the last reading that differs from the one before it (the
\* first reading when none does).
LastChange(r) ==
    CHOOSE i \in 1..Len(r) :
        /\ i = 1 \/ Meta(r[i]) # Meta(r[i - 1])
        /\ \A j \in (i + 1)..Len(r) : Meta(r[j]) = Meta(r[j - 1])
\* The samples read after the last change of the readings r.
StableSamples(r) == {j \in (LastChange(r) + 1)..Len(r) : r[j].kind = "sample"}

\* C19: the watch loop offers a file to the queue only in a pass where the
\* readings of its size and mtime have been the same for at least
\* stability_delay, at least MIN_FILE_AGE_SECS have passed since its first
\* reading, and at least 2 samples have found it unchanged since the last
\* reading that differed from the one before.
C19_StabilityGate ==
    [][OfferedNow =>
          LET r == observed'
              n == Len(r)
          IN /\ n > 0
             /\ \E i \in 1..n :
                   /\ r[i].at + stability_delay_secs <= now'
                   /\ \A j \in i..n : Meta(r[j]) = Meta(r[n])
             /\ r[1].at + MIN_FILE_AGE_SECS <= now'
             /\ Cardinality(StableSamples(r)) >= 2]_vars

\* A file whose metadata changed while it was pending has been offered.
C19_OfferedAfterChange ==
    /\ watch_ret.outcome = "offered"
    /\ watch_ret.result = "Queued"
    /\ LastChange(observed) > 1

\* ----------------------------------------------------------- resolver claims
\* The byte ranges [s, e) of the text.
Ranges == {se \in (0..Len(text)) \X (0..Len(text)) : se[1] <= se[2]}
\* The bytes of a range, read off the text position by position.
BytesAt(se) == [k \in 1..(se[2] - se[1]) |-> text[se[1] + k]]
\* A Resolved result names a span that lies within the text, whose bytes are
\* the quote's and whose slice hash is the hash of those bytes.
ResolvedIsExact ==
    (span_ret.called /\ Len(span_ret.matches) = 1) =>
        LET se == span_ret.matches[1]
        IN /\ se \in Ranges
           /\ BytesAt(se) = quote
           /\ compute_slice_hash(text, se[1], se[2]) = compute_hash(quote)

\* C20 (as claimed): a Resolved result names a span whose bytes are the quote's
\* and whose slice hash is the hash of those bytes, and after an Unresolved
\* result no byte range of the text equals the quote.
C20_ResolverHonest ==
    /\ ResolvedIsExact
    /\ (span_ret.called /\ Len(span_ret.matches) = 0) =>
          \A se \in Ranges : BytesAt(se) # quote

\* C20 (amended): a Resolved result names a span whose bytes are the quote's
\* and whose slice hash is the hash of those bytes, and after an Unresolved
\* result no non-empty byte range of the text equals the quote; the empty
\* quote is Unresolved in every text.
C20_ResolverHonestNonEmpty ==
    /\ ResolvedIsExact
    /\ (span_ret.called /\ Len(span_ret.matches) = 0) =>
          \A se \in Ranges : se[1] < se[2] => BytesAt(se) # quote
    /\ (span_ret.called /\ quote = <<>>) => Len(span_ret.matches) = 0

\* A two-byte quote was resolved to the last two bytes of a longer text.
C20_ResolvedAtEnd ==
    /\ span_ret.called
    /\ Len(span_ret.matches) = 1
    /\ Len(quote) = 2
    /\ span_ret.matches[1] = <<Len(text) - 2, Len(text)>>
    /\ Len(text) > 2

\* The start offsets at which the bytes of the (non-empty) quote occur in the
\* text; the empty quote has no match.
Occurrences ==
    {i \in 0..Len(text) :
        /\ quote # <<>>
        /\ i + Len(quote) <= Len(text)
        /\ BytesAt(<<i, i + Len(quote)>>) = quote}

\* C21: the status of find_quote is Unresolved for 0 exact matches, Resolved
\* for exactly 1 and Ambiguous for 2 or more; whenever there is a match the
\* selected span is the one with the smallest start offset, match_count is the
\* number of matches, overlapping ones included, and match_rank is 1.
C21_StatusByMatchCount ==
    span_ret.called =>
        LET n == Cardinality(Occurrences)
        IN /\ status(span_ret) =
                 (CASE n = 0 -> "Unresolved" [] n = 1 -> "Resolved" [] OTHER -> "Ambiguous")
           /\ match_info(span_ret) = <<n, 1>>
           /\ n > 0 =>
                 /\ selected_match(span_ret)[1] \in Occurrences
                 /\ \A i \in Occurrences : selected_match(span_ret)[1] <= i
                 /\ selected_match(span_ret)[2] =
                       selected_match(span_ret)[1] + Len(quote)

\* An Ambiguous result whose two matches overlap.
C21_OverlappingMatches ==
    /\ span_ret.called
    /\ status(span_ret) = "Ambiguous"
    /\ \E i \in Occurrences : i + 1 \in Occurrences /\ Len(quote) = 2

\* C22: when the quote has no exact byte match, find_quote returns no span and
\* status Unresolved, also when the whitespace-collapsed quote occurs in the
\* whitespace-collapsed text; the evidence built from it has no span, and its
\* reason is normalized_match_only exactly when the hint is set; the hint is
\* never set when an exact match exists.
C22_NoSpanFromNormalizedMatch ==
    span_ret.called =>
        /\ Occurrences = {} =>
              /\ span_ret.matches = <<>>
              /\ status(span_ret) = "Unresolved"
              /\ span_ret.normalized_hint = has_normalized_match(text, quote)
              /\ new_unresolved(span_ret.normalized_hint).span = NoSpan
              /\ (new_unresolved(span_ret.normalized_hint).resolution.reason
                     = "NormalizedMatchOnly") = span_ret.normalized_hint
        /\ Occurrences # {} => ~span_ret.normalized_hint

\* "a b" was looked for in "a  b": no span, only the hint.
C22_HintOnly ==
    /\ span_ret.called
    /\ text = <<97, 32, 32, 98>>
    /\ quote = <<97, 32, 98>>
    /\ span_ret.matches = <<>>
    /\ span_ret.normalized_hint

\* ---------------------------------------------------------- validation claims
\* The evidence records of an artifact, by position in evidence.jsonl.
GroupOf(name) ==
    {i \in 1..Len(evidence_list) :
        evidence_list[i].span # NoSpan /\ evidence_list[i].span.artifact = name}
Groups == {name \in ArtifactNames : GroupOf(name) # {}}
\* The hash of the artifact's current bytes at the span equals the recorded one.
SliceMatches(name, i) ==
    LET s == evidence_list[i].span.utf8_byte_offset[1]
        e == evidence_list[i].span.utf8_byte_offset[2]
        bytes == content_dir[name]
    IN /\ s <= e
       /\ e <= Len(bytes)
       /\ compute_hash([k \in 1..(e - s) |-> bytes[s + k]]) = evidence_list[i].span.slice_sha256
DigestMatches(name) ==
    /\ name \in DOMAIN metadata
    /\ metadata[name] = compute_hash(content_dir[name])

\* C23: validation appends exactly one EvidenceValidated event per artifact
\* group; for a group whose artifact exists and whose recorded digest does not
\* match, valid_count is the number of spans whose current slice hash equals
\* slice_sha256 and stale_count the number of the others; when the recorded
\* digest matches, every span is valid, digest_ok is true and stale_count is 0.
C23_OneEventPerGroup ==
    validate_ret # "none" =>
        /\ Len(evidence_events) = Cardinality(Groups)
        /\ \A name \in Groups :
              \E i \in 1..Len(evidence_events) :
                 LET ev == evidence_events[i]
                     valid == {k \in GroupOf(name) : SliceMatches(name, k)}
                 IN /\ ev.artifact = name
                    /\ \A j \in 1..Len(evidence_events) :
                          evidence_events[j].artifact = name => j = i
                    /\ name \in DOMAIN content_dir =>
                          IF DigestMatches(name)
                          THEN /\ ev.digest_ok
                               /\ ev.valid_count = Cardinality(GroupOf(name))
                               /\ ev.stale_count = 0
                          ELSE /\ ev.valid_count = Cardinality(valid)
                               /\ ev.stale_count = Cardinality(GroupOf(name) \ valid)

\* ------------------------------------------------------ claims on functions
\* C24: for every retry policy and every attempt n >= 1, delay_for_attempt(n)
\* is min(initial_delay_ms * backoff_multiplier^(n-1), max_delay_ms), and so
\* never more than max_delay_ms.
C24_DelayIsCappedBackoff ==
    call.fn = "delay_for_attempt" =>
        /\ call.ret = ExpectedDelay(call.args[1], call.args[2])
        /\ call.ret <= call.args[1].max_delay_ms

\* C25: the evidence id is a function of (content_id, extractor, quote_sha256,
\* span): equal tuples give equal ids, and two tuples that differ only in
\* their span give different ids.
C25_IdDeterminedBySpan ==
    call.fn = "compute_evidence_id" =>
        LET t1 == call.args[1]
            t2 == call.args[2]
        IN /\ t1 = t2 => call.ret[1] = call.ret[2]
           /\ (/\ t1.content_id = t2.content_id
               /\ t1.extractor = t2.extractor
               /\ t1.quote_sha256 = t2.quote_sha256
               /\ t1.span # t2.span) => call.ret[1] # call.ret[2]

\* C26: the timeout handed to the executor for a step is the smaller of the
\* step's override and the policy's step_timeout_seconds (the policy's value
\* when the step has no override), and so never longer than the policy's.
C26_TimeoutIsMinimum ==
    call.fn = "timeout" =>
        LET override == call.args[1]
            policy == call.args[2].step_timeout_seconds
        IN /\ call.ret <= policy
           /\ override = {} => call.ret = policy
           /\ \A n \in override : call.ret = Min(n, policy)

\* The step at position i takes its input from a previous step that no step
\* at a lower position is named after.
BadReference(ss, i) ==
    /\ ss[i].input_from.kind = "previous_step"
    /\ \A j \in 1..(i - 1) : ss[j].name # ss[i].input_from.ref

\* C27: Pipeline::validate accepts a pipeline only if every previous_step
\* reference names a step at a strictly lower index than the referring step;
\* a reference to the step itself, to a later step or to no step is rejected.
C27_ReferencesPointBack ==
    call.fn = "validate" =>
        ((\E i \in 1..Len(call.args[1].steps) : BadReference(call.args[1].steps, i))
            => call.ret = "Err")

\* A pipeline whose second step refers to itself was rejected.
C27_SelfReferenceRejected ==
    /\ call.fn = "validate"
    /\ call.ret = "Err"
    /\ call.args[1].name = "p"
    /\ Len(call.args[1].steps) = 2
    /\ call.args[1].steps[1].name = "A"
    /\ call.args[1].steps[1].input_from = PipelineInput
    /\ call.args[1].steps[2].name = "B"
    /\ call.args[1].steps[2].input_from = PreviousStep("B")

\* C28: Pipeline::validate rejects a pipeline in which two steps have the
\* same name.
C28_DuplicateNamesRejected ==
    call.fn = "validate" =>
        ((\E i, j \in 1..Len(call.args[1].steps) :
             i # j /\ call.args[1].steps[i].name = call.args[1].steps[j].name)
            => call.ret = "Err")

\* The step about to be resolved names a previous step or an artifact that the
\* artifact map does not hold.
MissingArtifact ==
    /\ AtStep
    /\ step.input_from.kind \in {"previous_step", "artifact"}
    /\ step.input_from.ref \notin DOMAIN artifacts

\* This step of the invocation appends no StepStarted and no StepRetrying and
\* does not call the executor.
NotStartedNorRetried ==
    /\ exec_calls' = exec_calls
    /\ \A i \in (Len(Log) + 1)..Len(Log') :
          Log'[i].event_type \notin {"StepStarted", "StepRetrying"}

AppendedNow == {Log'[i] : i \in (Len(Log) + 1)..Len(Log')}

\* C30: the run timeout is evaluated at step boundaries only. When the clock
\* read by the check before a step is >= run_timeout_seconds, the invocation
\* returns with SafetyLimitReached as the one event appended and no step
\* starts; a RunTimeout is recorded by no other step of the program; and a
\* step that is executing when the limit passes goes on: the return of its
\* executor appends StepCompleted and advances the loop.
C30_TimeoutAtStepBoundary ==
    /\ [][(/\ AtStep
           /\ pc' # "idle"
           /\ ~io_failed'
           /\ elapsed' >= limits.run_timeout_seconds) =>
             /\ pc' = "returned"
             /\ Len(Log') = Len(Log) + 1
             /\ HasType(Log', Len(Log'), "SafetyLimitReached")
             /\ exec_calls' = exec_calls]_vars
    /\ [][(\E e \in AppendedNow : e.error = "RunTimeout") => AtStep]_vars
    /\ [][(pc = "exec" /\ elapsed >= limits.run_timeout_seconds /\ pc' = "loop") =>
             /\ Len(Log') = Len(Log) + 1
             /\ HasType(Log', Len(Log'), "StepCompleted")
             /\ Log'[Len(Log')].idempotency_key = idem_key
             /\ step_idx' = step_idx + 1]_vars

\* C30 witness: the limit passed while the first step was executing, and its
\* StepCompleted was recorded all the same.
C30_CompletedPastTheLimit ==
    /\ pc = "loop"
    /\ op = "run_pipeline"
    /\ step_idx = 1
    /\ Len(steps) = 2
    /\ elapsed >= limits.run_timeout_seconds
    /\ Len(Log) = 3
    /\ HasType(Log, 2, "StepStarted")
    /\ HasType(Log, 3, "StepCompleted")

\* C31: in the watch loop a file that passed the stability checks and then
\* fails the ffprobe probe or the transcode is deferred: in that pass it stays
\* in the pending map with stable_checks = 0 and last_changed = now, nothing is
\* appended to the queue log and nothing is sent on the channel; and the next
\* pass of the loop samples the file again.
C31_DeferredNotErrored ==
    /\ [][(loops' = loops + 1 /\ watch_ret'.outcome = "deferred") =>
            /\ watch_ret'.path \in DOMAIN pending'
            /\ pending'[watch_ret'.path].stable_checks = 0
            /\ pending'[watch_ret'.path].last_changed = now
            /\ Cardinality(StableSamples(observed')) >= 2
            /\ queue_log' = queue_log
            /\ event_tx' = event_tx]_vars
    /\ [][(loops' = loops + 1 /\ watch_ret.outcome = "deferred") =>
            /\ watch_ret.path \in DOMAIN pending
            /\ Len(observed') > Len(observed)
            /\ observed'[Len(observed')].kind = "sample"
            /\ observed'[Len(observed')].at = now]_vars

\* C31 witness: the pass after a failed ffprobe probe sampled the .qta file
\* again and found it unchanged: one stable check since the reset.
C31_SampledAgainAfterDeferral ==
    /\ watch_ret.outcome = "waiting"
    /\ fs.path = "memo.qta"
    /\ "memo.qta" \in DOMAIN pending
    /\ pending["memo.qta"].stable_checks = 1
    /\ pending["memo.qta"].last_changed > fs.mtime
    /\ pending["memo.qta"].last_changed - pending["memo.qta"].first_seen >= MIN_FILE_AGE_SECS
    /\ Cardinality(StableSamples(observed)) >= 4

\* C32: a pass of the watch loop sends an AudioFileEvent on the channel
\* exactly when its call of enqueue returned Queued, and the event sent names
\* the item just enqueued; AlreadyQueued, AlreadyProcessed and ResetForRetry
\* results, enqueue errors, deferrals and hash failures send nothing.
C32_EventIffQueuedNew ==
    [][loops' = loops + 1 =>
         /\ (event_tx' # event_tx) <=>
               (watch_ret'.outcome = "offered" /\ watch_ret'.result = "Queued")
         /\ event_tx' # event_tx =>
               /\ Len(event_tx') = Len(event_tx) + 1
               /\ SubSeq(event_tx', 1, Len(event_tx)) = event_tx
               /\ Len(queue_log') = Len(queue_log) + 1
               /\ queue_log'[Len(queue_log')].event_type = "Enqueued"
               /\ event_tx'[Len(event_tx')].hash = queue_log'[Len(queue_log')].item_id
               /\ event_tx'[Len(event_tx')].path = queue_log'[Len(queue_log')].data.file_path]_vars

\* C32 witness: the watch loop offered a file whose recording had failed
\* before; enqueue reset the item for retry and nothing was sent.
C32_ResetSendsNothing ==
    /\ watch_ret.outcome = "offered"
    /\ watch_ret.result = "ResetForRetry"
    /\ queue_log # <<>>
    /\ queue_log[Len(queue_log)].event_type = "ResetForRetry"
    /\ event_tx = <<>>

\* ---------------------------------------------------------------- scan claims
\* The regular files of a directory that carry a configured extension.
AudioFiles(dir) == {p \in DOMAIN dir : extension(p) \in extensions /\ dir[p].is_file}
\* The audio files of a scan that fail the age test, the probe or the transcode.
FailsScanGate(r, p) ==
    \/ r.at - r.dir[p].mtime < MIN_FILE_AGE_SECS
    \/ is_qta_file(p) /\ r.fate[p] = "probe_fails"
    \/ r.fate[p] = "normalize_fails"

\* C33: scan_once gives a file to enqueue only if the file satisfies the
\* predicates of the watch loop: unchanged for stability_delay, at least
\* MIN_FILE_AGE_SECS old, found unchanged by at least 2 samples after the
\* first reading, probed and transcoded successfully; and every audio file
\* failing one of them is counted as deferred and not given to enqueue.
C33_ScanUsesLoopPredicates ==
    \A i \in 1..Len(scan_rets) :
        LET r == scan_rets[i]
        IN /\ \A p \in r.offered :
                 /\ p \in AudioFiles(r.dir)
                 /\ r.at - r.dir[p].mtime >= stability_delay_secs
                 /\ ~FailsScanGate(r, p)
                 /\ r.readings - 1 >= 2
           /\ \A p \in AudioFiles(r.dir) : FailsScanGate(r, p) => p \notin r.offered
           /\ r.result.deferred =
                 Cardinality({p \in AudioFiles(r.dir) : FailsScanGate(r, p)})

\* Every probe, transcode and enqueue of the scan succeeded.
NoScanFault(r) == \A p \in DOMAIN r.dir : r.fate[p] = "ok"

\* C34: over an unchanged directory and a queue that was empty, the first
\* scan_once enqueues every regular file with a configured extension
\* (new_files is their number) and the second reports new_files = 0 and
\* already_queued = the first pass's new_files, appending nothing.
C34_ScanIdempotent ==
    (/\ Len(scan_rets) >= 1
     /\ scan_rets[1].before = <<>>
     /\ NoScanFault(scan_rets[1])) =>
        /\ scan_rets[1].result.new_files = Cardinality(AudioFiles(scan_rets[1].dir))
        /\ scan_rets[1].offered = AudioFiles(scan_rets[1].dir)
        /\ (/\ Len(scan_rets) = 2
            /\ scan_rets[2].dir = scan_rets[1].dir
            /\ NoScanFault(scan_rets[2])) =>
              /\ scan_rets[2].result.new_files = 0
              /\ scan_rets[2].result.already_queued = scan_rets[1].result.new_files
              /\ scan_rets[2].after = scan_rets[2].before

\* ------------------------------------------------------------- append claims
\* The lines task t has written so far.
Written(t) == writers[t].n + (IF writers[t].pc = "written" THEN 1 ELSE 0)
\* The positions of the log that hold an event of task t, in log order.
RECURSIVE EventsOf(_, _)
EventsOf(L, t) ==
    IF L = <<>> THEN <<>>
    ELSE (IF \E k \in 1..Len(TaskEvents[t]) : Head(L) = TaskEvents[t][k]
          THEN <<Head(L)>> ELSE <<>>) \o EventsOf(Tail(L), t)

C36_OneCompletionPerKey ==
    \A i, j \in 1..Len(Log) :
        (/\ i < j
         /\ HasType(Log, i, "StepCompleted")
         /\ HasType(Log, j, "StepCompleted"))
        => Log[i].idempotency_key # Log[j].idempotency_key

\* C36 witness: resume_run, given the input of the first invocation, has
\* completed a step after an earlier invocation completed another; the log
\* holds the two StepCompleted events.
C36_CompletedAcrossInvocations ==
    /\ op = "resume_run"
    /\ pc = "returned"
    /\ result = "Ok"
    /\ input = orig_input
    /\ NumCompleted(Log) = 2
    /\ \E i \in 1..base : HasType(Log, i, "StepCompleted")
    /\ \E i \in (base + 1)..Len(Log) : HasType(Log, i, "StepCompleted")

\* ------------------------------------------------------ queue state claims
\* The status of item id after the first n events of the queue log ("" when
\* the queue does not hold the item then).
StatusAfter(id, n) ==
    LET items == queue_replay(SubSeq(queue_log, 1, n))
    IN IF id \in DOMAIN items THEN items[id].status ELSE ""

\* C37: once an item has replayed to Done, no later enqueue, mark_processing,
\* mark_done or mark_failed makes it Pending again: the queue log has no
\* prefix that leaves an item Done and a longer prefix that leaves it Pending.
C37_DoneIsFinal ==
    \A id \in QueueIds :
        \A i, j \in 0..Len(queue_log) :
            (i <= j /\ StatusAfter(id, i) = "Done") => StatusAfter(id, j) # "Pending"

\* C38: when two workers call mark_processing for one Pending item at the
\* same time, at most one call succeeds: the queue log never holds two
\* ProcessingStarted events of an item with no Enqueued or ResetForRetry event
\* of the item between them.
C38_OneProcessingStarted ==
    \A i, j \in 1..Len(queue_log) :
        (/\ i < j
         /\ queue_log[i].event_type = "ProcessingStarted"
         /\ queue_log[j].event_type = "ProcessingStarted"
         /\ queue_log[i].item_id = queue_log[j].item_id)
        => \E k \in (i + 1)..(j - 1) :
              /\ queue_log[k].item_id = queue_log[i].item_id
              /\ queue_log[k].event_type \in {"Enqueued", "ResetForRetry"}

\* The status replay gives step i of a log: Running after StepStarted,
\* Retrying after StepRetrying, until StepCompleted or StepFailed.
OpenStarts(L) ==
    {i \in 1..Len(L) :
        /\ L[i].event_type = "StepStarted"
        /\ ~\E j \in (i + 1)..(Len(L) - 1) :
              /\ L[j].step_id = L[i].step_id
              /\ L[j].event_type \in {"StepCompleted", "StepFailed"}}

\* C39: in a run log whose last event is RunCompleted, RunFailed or
\* SafetyLimitReached, every StepStarted is followed, before that last event,
\* by a StepCompleted or StepFailed of the same step, and replay leaves no
\* step Running.
C39_NoStepRunningAtTheEnd ==
    (/\ Len(Log) > 0
     /\ Log[Len(Log)].event_type \in TerminalEventTypes)
    => /\ OpenStarts(Log) = {}
       /\ \A name \in DOMAIN from_events(Log).step_statuses :
             from_events(Log).step_statuses[name] # "Running"

\* ------------------------------------------------------------- termination
\* C40: when every executor call returns and every append succeeds, each
\* run_pipeline and resume_run invocation returns; the attempts of a step never
\* exceed max_attempts (one when max_attempts is 0), and the step index never
\* goes back during an invocation, so the loop passes over the steps once.
C40_InvocationsTerminate ==
    /\ [](pc \in {"exec", "sleep"} =>
             attempt <= AtLeastOne(step.retry_policy.max_attempts))
    /\ [][(pc \in Running /\ pc' \in Running) =>
             (step_idx' >= step_idx /\ step_idx' <= Len(steps))]_vars
    /\ (pc \in Running) ~> (pc = "returned")

\* C40 witness: an invocation has returned Err after the last allowed attempt
\* of its second step failed, the first step having been done before it.
C40_ReturnedAfterLastAttempt ==
    /\ pc = "returned"
    /\ Len(steps) = 2
    /\ step_idx = 1
    /\ attempt = DefaultMaxAttempts
    /\ step.retry_policy.max_attempts = DefaultMaxAttempts
    /\ HasType(Log, Len(Log), "RunFailed")

====
